---- MODULE Spec2Model ----
(***************************************************************************)
(* Wicksy: the price-alert evaluator of wicksy/features/alerts.py.         *)
(*                                                                         *)
(* The model follows the coroutines of the module on asyncio's             *)
(* cooperative scheduler: one step of the model runs a coroutine from one  *)
(* suspension point (an await that really yields: an aiosqlite call, a     *)
(* Discord send, the gather) to the next.  The slash-command handlers of   *)
(* setup_alerts are single steps (each commits one SQLite transaction).    *)
(***************************************************************************)
EXTENDS Integers, Sequences, FiniteSets, TLC

\* ---------------------------------------------------------------- bounds
MaxAlerts == 2
MaxTicks == 2
MaxCmds == 3
MaxTime == 55
MaxGather == 11
MaxGuilds == 2
MaxRetryTicks == 3
MaxRestarts == 1
MaxReady == 2
MaxUpserts == 3

\* ------------------------------------------------------- program constants
PRICE_CACHE_TTL == 55
TICK_INTERVAL == 60
FETCH_LIMIT == 10

\* ------------------------------------------------------------ value sets
\* callers that can be inside alert_checker() at the same time
Invs == {1, 2}
Users == {1, 2}
\* /alert add interactions that can be in progress at the same time
Handlers == {1, 2}
Symbols == {"bitcoin", "AAPL"}
\* the /alert add requests made: <<user, stored symbol, target, direction>>
AddInputs ==
  { <<1, "bitcoin", 2, "above">>, <<1, "bitcoin", 1, "below">>,
    <<2, "AAPL", 1, "below">> }
ClockSteps == {PRICE_CACHE_TTL}
\* seconds a resolver call may take
Latencies == {0, 5, 6}

\* Python's None and a present value
None == <<>>
Some(v) == <<v>>

\* resolve_price(symbol) -> (price, change, source) | (None, None, None)
Absent == [price |-> None, change |-> None, source |-> None]
PriceResults ==
  { Absent,
    [price |-> Some(1), change |-> Some(-1), source |-> Some("crypto")],
    [price |-> Some(2), change |-> None, source |-> Some("stock")] }

VARIABLES
  BOT_INSTANCE,   \* module global: the bot handle is set
  lock,           \* _ALERT_LOOP_LOCK: 0 when free, else the holder
  cache,          \* _PRICE_CACHE: symbol -> entry (a function on a subset of Symbols)
  now,            \* time.time()
  alerts,         \* rows of table alerts
  nextId,         \* AUTOINCREMENT sequence of alerts.id
  pausedCol,      \* table alerts has the column "paused"
  pc,             \* where each invocation of alert_checker is suspended
  loc,            \* locals of each invocation
  hist,           \* what each invocation has done since it was started
  sendCount,      \* alert id -> number of send_alert calls made for it
  nTicks,         \* invocations of alert_checker started
  foundFree,      \* lock checks that found the lock free
  passesStarted,  \* acquisitions of the lock
  nCmds,          \* /alert commands handled
  nextIteration,  \* tasks.loop: the time before which the next call is not made
  adding,         \* the /alert add handlers in progress
  ALERTS_CHANNEL_ID,   \* module global: the configured channel, or None
  ALERT_LOOP_STARTED,  \* module global _ALERT_LOOP_STARTED
  settings,       \* table settings: the value stored under 'alerts_channel'
  loopRunning,    \* alert_checker.is_running(): the loop has been started
  ready,          \* where the two on_ready handlers are suspended
  setting,        \* the /alert setchannel handler in progress
  lookups,        \* the calls of _get_price_cached that await resolve_price
  wmod,           \* module watchlist: WATCHLIST_CHANNEL_ID, WATCHLIST_MESSAGE_ID, BOT_INSTANCE
  botmod,         \* module bot (top-level bot.py): its own globals of the same names
  wstore,         \* table watchlist and the settings keys watchlist_channel, watchlist_message
  chan,           \* the watchlist channel: the bot's messages in it, sends and edits made
  upserts,        \* the calls of upsert_watchlist_message in progress
  clearing,       \* the /watchlist clear handler in progress
  nUpserts        \* calls of upsert_watchlist_message (or updater ticks) started

vars == <<BOT_INSTANCE, lock, cache, now, alerts, nextId, pausedCol, pc, loc,
          hist, sendCount, nTicks, foundFree, passesStarted, nCmds,
          nextIteration, adding, ALERTS_CHANNEL_ID, ALERT_LOOP_STARTED,
          settings, loopRunning, ready, setting, lookups,
          wmod, botmod, wstore, chan, upserts, clearing, nUpserts>>

\* the state of the watchlist feature, and the state of the alerts feature
watchVars == <<wmod, botmod, wstore, chan, upserts, clearing, nUpserts>>
alertVars == <<BOT_INSTANCE, lock, cache, now, alerts, nextId, pausedCol, pc, loc,
               hist, sendCount, nTicks, foundFree, passesStarted, nCmds,
               nextIteration, adding, ALERTS_CHANNEL_ID, ALERT_LOOP_STARTED,
               settings, loopRunning, ready, setting, lookups>>

AlertIds == 1..MaxAlerts

\* ------------------------------------------------------------- helpers
RECURSIVE SortById(_)
SortById(S) ==
  IF S = {} THEN <<>>
  ELSE LET r == CHOOSE x \in S : \A y \in S : x.id <= y.id
       IN <<r>> \o SortById(S \ {r})

RECURSIVE Dedup(_, _)
Dedup(s, seen) ==
  IF s = <<>> THEN <<>>
  ELSE IF Head(s) \in seen THEN Dedup(Tail(s), seen)
       ELSE <<Head(s)>> \o Dedup(Tail(s), seen \cup {Head(s)})

SeqRemove(s, n) == [k \in 1..(Len(s) - 1) |-> IF k < n THEN s[k] ELSE s[k + 1]]

SeqSet(s) == {s[k] : k \in 1..Len(s)}

EmptyLoc ==
  [rows |-> <<>>, jobs |-> <<>>, running |-> {}, prices |-> <<>>, k |-> 1,
   toDelete |-> <<>>, tier |-> "none", g |-> 0, attempts |-> <<>>,
   args |-> <<>>]

EmptyHist ==
  [outcome |-> "none", overlap |-> FALSE, foundHeld |-> FALSE,
   schemaReads |-> 0, schemaWrites |-> 0, rowReads |-> 0, rowWrites |-> 0,
   resolves |-> [s \in Symbols |-> 0],
   loaded |-> {}, symbols |-> {}, unresolved |-> {},
   sentIds |-> {}, doneIds |-> {}, delivered |-> {}, marked |-> {}, deleted |-> {}]

IdleAdd == [pc |-> "idle", tuple |-> <<>>, view |-> {}, gone |-> {}]

\* no on_ready handler has run in this process; boots counts the restarts,
\* fires the on_ready events after the first, starts the loop tasks created,
\* raised whether a start() has raised out of an on_ready handler
IdleReady ==
  [bot |-> "idle", alerts |-> "idle", botRow |-> <<>>, alertsRow |-> <<>>,
   boots |-> 0, fires |-> 0, starts |-> 0, raised |-> FALSE]

\* no /alert setchannel is in progress, none has run in this process
IdleSetting == [channel |-> <<>>, touched |-> FALSE]

\* no call of _get_price_cached awaits resolve_price.  open holds the calls
\* that do (by: the invocation of alert_checker, or 0 for /alert test; ts:
\* the "now" the call has read; seq: its rank among the resolver calls
\* started), started counts the resolver calls, last gives for a symbol the
\* seq of the call whose result _PRICE_CACHE holds
IdleLookups == [open |-> {}, started |-> 0, last |-> <<>>]

\* callers that can be inside upsert_watchlist_message() at the same time:
\* 1 is the updater loop, 2 a /watchlist command
WHandlers == {1, 2}

\* no call of upsert_watchlist_message is in progress.  mid: the message id
\* the call edits; ret: what the call has returned; sent, edited: the
\* messages it has sent and edited; newId: the id of the message it sent;
\* bot, channel, rows, found, known: what its checks have seen
IdleUpsert ==
  [pc |-> "idle", mid |-> <<>>, ret |-> "none", sent |-> 0, edited |-> 0,
   newId |-> <<>>, bot |-> FALSE, channel |-> <<>>, rows |-> {}, found |-> FALSE,
   known |-> <<>>, editOk |-> FALSE]

IdleClear == [pc |-> "idle", mid |-> <<>>]

\* the watchlist feature as its modules are imported: nothing configured,
\* nothing stored, nothing posted
WatchIdle ==
  /\ wmod = [WATCHLIST_CHANNEL_ID |-> <<>>, WATCHLIST_MESSAGE_ID |-> <<>>,
             BOT_INSTANCE |-> FALSE]
  /\ botmod = [WATCHLIST_CHANNEL_ID |-> <<>>, WATCHLIST_MESSAGE_ID |-> <<>>,
               pc |-> "idle", boots |-> 0]
  /\ wstore = [watchlist |-> {}, watchlist_channel |-> <<>>,
               watchlist_message |-> <<>>]
  /\ chan = [msgs |-> {}, sends |-> 0, edits |-> 0]
  /\ upserts = [h \in WHandlers |-> IdleUpsert]
  /\ clearing = IdleClear
  /\ nUpserts = 0

Init ==
  /\ BOT_INSTANCE = FALSE
  /\ lock = 0
  /\ cache = <<>>
  /\ now = 0
  /\ alerts = {}
  /\ nextId = 1
  /\ pausedCol = FALSE
  /\ pc = [i \in Invs |-> "idle"]
  /\ loc = [i \in Invs |-> EmptyLoc]
  /\ hist = [i \in Invs |-> EmptyHist]
  /\ sendCount = [a \in AlertIds |-> 0]
  /\ nTicks = 0
  /\ foundFree = 0
  /\ passesStarted = 0
  /\ nCmds = 0
  /\ nextIteration = 0
  /\ adding = [h \in Handlers |-> IdleAdd]
  /\ ALERTS_CHANNEL_ID = None
  /\ ALERT_LOOP_STARTED = FALSE
  /\ settings = None
  /\ loopRunning = FALSE
  /\ ready = IdleReady
  /\ setting = IdleSetting
  /\ lookups = IdleLookups
  /\ WatchIdle

\* setup_alerts(bot, guild_id): remember the bot instance
SetupAlerts ==
  /\ ~BOT_INSTANCE
  /\ BOT_INSTANCE' = TRUE
  /\ UNCHANGED <<lock, cache, now, alerts, nextId, pausedCol, pc, loc, hist,
                 sendCount, nTicks, foundFree, passesStarted, nCmds,
                 nextIteration, adding,
                 ALERTS_CHANNEL_ID, ALERT_LOOP_STARTED, settings,
                 loopRunning, ready, setting, lookups, watchVars>>

\* the wall clock.  Only the age of a cache entry is ever read (now - ts), so
\* time that passes while the cache is empty is not observable and is left out.
AdvanceClock(d) ==
  /\ now + d <= MaxTime
  /\ DOMAIN cache # {}
  /\ now' = now + d
  /\ UNCHANGED <<BOT_INSTANCE, lock, cache, alerts, nextId, pausedCol, pc, loc,
                 hist, sendCount, nTicks, foundFree, passesStarted, nCmds,
                 nextIteration, adding,
                 ALERTS_CHANNEL_ID, ALERT_LOOP_STARTED, settings,
                 loopRunning, ready, setting, lookups, watchVars>>

\* ------------------------------------------------------- store: schema
\* _ensure_schema(): CREATE TABLE IF NOT EXISTS settings / alerts, then
\* PRAGMA table_info(alerts) and ALTER TABLE ... ADD COLUMN paused when the
\* column is missing.  The PRAGMA is a read of the store on every call; the
\* call writes only when the column (or a table) is missing.
EnsureSchemaReads(col) == 1
EnsureSchemaWrites(col) == IF col THEN 0 ELSE 1

\* ------------------------------------------------------- price cache
\* an entry served up to and including the age PRICE_CACHE_TTL
CacheLiveInclusive(c, sym, t) == sym \in DOMAIN c /\ t - c[sym].ts <= PRICE_CACHE_TTL

\* an entry served whatever its age
CacheLiveAny(c, sym, t) == sym \in DOMAIN c

\* cached and (now - cached[3] < PRICE_CACHE_TTL)
CacheLive(c, sym, t) == sym \in DOMAIN c /\ t - c[sym].ts < PRICE_CACHE_TTL

\* the dictionary replaced by one that holds the new entry only
CachePutOnly(c, sym, r, t) ==
  [x \in {sym} |-> [price |-> r.price, change |-> r.change, source |-> r.source, ts |-> t]]

\* _PRICE_CACHE[symbol] = (price, change, source, now)
CachePut(c, sym, r, t) ==
  [x \in (DOMAIN c) \cup {sym} |->
     IF x = sym
     THEN [price |-> r.price, change |-> r.change, source |-> r.source, ts |-> t]
     ELSE c[x]]

\* the cache never consulted
GetPriceUncached(c, sym, t, r) ==
  [ret |-> r, cache |-> CachePut(c, sym, r, t), called |-> TRUE]

\* an all-absent result returned but not stored ("if price is not None")
GetPriceSkipAbsent(c, sym, t, r) ==
  IF CacheLive(c, sym, t)
  THEN [ret |-> [price |-> c[sym].price, change |-> c[sym].change,
                 source |-> c[sym].source],
        cache |-> c, called |-> FALSE]
  ELSE [ret |-> r, cache |-> IF r.price = None THEN c ELSE CachePut(c, sym, r, t),
        called |-> TRUE]

\* _get_price_cached(symbol), r being what resolve_price would return now
GetPriceCached(c, sym, t, r) ==
  IF CacheLive(c, sym, t)
  THEN [ret |-> [price |-> c[sym].price, change |-> c[sym].change,
                 source |-> c[sym].source],
        cache |-> c, called |-> FALSE]
  ELSE [ret |-> r, cache |-> CachePut(c, sym, r, t), called |-> TRUE]

\* ------------------------------------------------------- evaluator helpers
\* the lock check left out (or always answering "free")
LockedCheckNever(l) == FALSE

\* _ALERT_LOOP_LOCK.locked()
LockedCheck(l) == l # 0

\* the pass entered without taking the lock
AcquireNoop(l, i) == l

\* asyncio.Lock.acquire() on a free lock: the caller becomes the holder
Acquire(l, i) == i

\* the SELECT without its WHERE paused=0
ActiveRowsAll(rows) == SortById(rows)

\* SELECT id, user_id, symbol, target, direction FROM alerts WHERE paused=0
ActiveRows(rows) == SortById({r \in rows : r.paused = 0})

\* one fetch per alert instead of one per distinct symbol
AllSymbols(rows) == [k \in 1..Len(rows) |-> rows[k].symbol]

\* unique_symbols = {row[2] for row in alerts}
UniqueSymbols(rows) == Dedup([k \in 1..Len(rows) |-> rows[k].symbol], {})

\* prices.get(symbol, (None, None, None))
PricesGet(p, sym) == IF sym \in DOMAIN p THEN p[sym] ELSE Absent

PricesPut(p, sym, r) ==
  [x \in (DOMAIN p) \cup {sym} |-> IF x = sym THEN r ELSE p[x]]

\* the comparison made strict
TriggeredStrict(direction, price, target) ==
  \/ direction = "above" /\ price > target
  \/ direction = "below" /\ price < target

\* triggered = (direction == "above" and price >= target) or
\*             (direction == "below" and price <= target)
Triggered(direction, price, target) ==
  \/ direction = "above" /\ price >= target
  \/ direction = "below" /\ price <= target

\* an absent price taken for 0 ("price or 0") instead of skipping the alert
FiresNoneAsZero(row, p) ==
  Triggered(row.direction, IF p.price = None THEN 0 ELSE p.price[1], row.target)

\* the loop body of step 3 up to the send: price is None -> continue
Fires(row, p) ==
  /\ p.price # None
  /\ Triggered(row.direction, p.price[1], row.target)

\* the coroutines waiting in acquire()
Waiting == {j \in Invs : pc[j] = "waiting"}

\* the block left with the lock still held
ReleaseNever(i) ==
  /\ lock' = lock
  /\ pc' = [pc EXCEPT ![i] = "idle"]
  /\ passesStarted' = passesStarted

\* leaving "async with _ALERT_LOOP_LOCK": release() hands the lock to a
\* coroutine waiting in acquire(), if there is one
Release(i) ==
  IF Waiting = {}
  THEN /\ lock' = 0
       /\ pc' = [pc EXCEPT ![i] = "idle"]
       /\ passesStarted' = passesStarted
  ELSE LET j == CHOOSE w \in Waiting : TRUE
       IN /\ lock' = j
          /\ pc' = [pc EXCEPT ![i] = "idle", ![j] = "load"]
          /\ passesStarted' = passesStarted + 1

\* ------------------------------------------------------- alert_checker
\* a new call of alert_checker() takes the first slot not in use
FreeSlot(i) == pc[i] = "idle" /\ \A j \in Invs : j < i => pc[j] # "idle"

\* if not BOT_INSTANCE: return
StartNoBot(i) ==
  /\ FreeSlot(i)
  /\ ~BOT_INSTANCE
  /\ loc' = [loc EXCEPT ![i] = EmptyLoc]
  /\ hist' = [hist EXCEPT ![i] = [EmptyHist EXCEPT !.outcome = "nobot"]]
  /\ UNCHANGED <<BOT_INSTANCE, lock, cache, now, alerts, nextId, pausedCol, pc,
                 sendCount, nTicks, foundFree, passesStarted, nCmds,
                 nextIteration, adding,
                 ALERTS_CHANNEL_ID, ALERT_LOOP_STARTED, settings,
                 loopRunning, ready, setting, lookups, watchVars>>

\* the call runs up to "await _ensure_schema()"; max bounds the calls made
StartWithin(i, max) ==
  /\ FreeSlot(i)
  /\ nTicks < max
  /\ BOT_INSTANCE
  /\ nTicks' = nTicks + 1
  /\ pc' = [pc EXCEPT ![i] = "schema"]
  /\ loc' = [loc EXCEPT ![i] = EmptyLoc]
  /\ hist' = [hist EXCEPT ![i] =
                [EmptyHist EXCEPT !.overlap = \E j \in Invs \ {i} : pc[j] # "idle"]]
  /\ UNCHANGED <<BOT_INSTANCE, lock, cache, alerts, nextId, pausedCol,
                 sendCount, foundFree, passesStarted, nCmds, adding,
                 ALERTS_CHANNEL_ID, ALERT_LOOP_STARTED, settings,
                 loopRunning, ready, setting, lookups, watchVars>>

StartCall(i) == StartWithin(i, MaxTicks)

\* a call of alert_checker() made at any time
Start(i) == StartCall(i) /\ UNCHANGED <<now, nextIteration>>

\* the pass left by an exception: tasks.loop ends with it
Raised(i) == hist[i].outcome \in {"readfail", "sendraise", "deletefail"}

Max(a, b) == IF a >= b THEN a ELSE b

\* @tasks.loop(minutes=1): the first call is made at once, every later one
\* when the call before it has returned and a minute has passed since that
\* call was due
StartTimed(i) ==
  /\ StartCall(i)
  /\ ~Raised(i)
  /\ now' = IF nTicks = 0 THEN now ELSE Max(now, nextIteration)
  /\ nextIteration' = now' + TICK_INTERVAL

SchemaDone(i) ==
  [hist EXCEPT ![i].schemaReads = @ + EnsureSchemaReads(pausedCol),
               ![i].schemaWrites = @ + EnsureSchemaWrites(pausedCol),
               ![i].foundHeld = (lock # 0)]

\* _ensure_schema() has returned; if _ALERT_LOOP_LOCK.locked(): return
Skip(i) ==
  /\ pc[i] = "schema"
  /\ LockedCheck(lock)
  /\ pausedCol' = TRUE
  /\ hist' = [SchemaDone(i) EXCEPT ![i].outcome = "skipped"]
  /\ pc' = [pc EXCEPT ![i] = "idle"]
  /\ foundFree' = IF lock = 0 THEN foundFree + 1 ELSE foundFree
  /\ UNCHANGED <<BOT_INSTANCE, lock, cache, now, alerts, nextId, loc, sendCount,
                 nTicks, passesStarted, nCmds, nextIteration, adding,
                 ALERTS_CHANNEL_ID, ALERT_LOOP_STARTED, settings,
                 loopRunning, ready, setting, lookups, watchVars>>

\* _ensure_schema() has returned, the lock check passed:
\* async with _ALERT_LOOP_LOCK, up to the await of the SELECT
Enter(i) ==
  /\ pc[i] = "schema"
  /\ ~LockedCheck(lock)
  /\ pausedCol' = TRUE
  /\ hist' = SchemaDone(i)
  /\ foundFree' = IF lock = 0 THEN foundFree + 1 ELSE foundFree
  /\ IF lock = 0
     THEN /\ lock' = Acquire(lock, i)
          /\ pc' = [pc EXCEPT ![i] = "load"]
          /\ passesStarted' = passesStarted + 1
     ELSE /\ lock' = lock
          /\ pc' = [pc EXCEPT ![i] = "waiting"]
          /\ passesStarted' = passesStarted
  /\ UNCHANGED <<BOT_INSTANCE, cache, now, alerts, nextId, loc, sendCount, nTicks, nCmds,
                 nextIteration, adding,
                 ALERTS_CHANNEL_ID, ALERT_LOOP_STARTED, settings,
                 loopRunning, ready, setting, lookups, watchVars>>

\* 1) the SELECT returned rows
Load(i) ==
  /\ pc[i] = "load"
  /\ ActiveRows(alerts) # <<>>
  /\ loc' = [loc EXCEPT ![i].rows = ActiveRows(alerts),
                        ![i].jobs = UniqueSymbols(ActiveRows(alerts))]
  /\ hist' = [hist EXCEPT ![i].rowReads = @ + 1,
                          ![i].loaded = {r.id : r \in {x \in alerts : x.paused = 0}},
                          ![i].symbols = {r.symbol : r \in {x \in alerts : x.paused = 0}}]
  /\ pc' = [pc EXCEPT ![i] = "gather"]
  /\ UNCHANGED <<BOT_INSTANCE, lock, cache, now, alerts, nextId, pausedCol,
                 sendCount, nTicks, foundFree, passesStarted, nCmds,
                 nextIteration, adding,
                 ALERTS_CHANNEL_ID, ALERT_LOOP_STARTED, settings,
                 loopRunning, ready, setting, lookups, watchVars>>

\* 1) the SELECT returned nothing: if not alerts: return
LoadEmpty(i) ==
  /\ pc[i] = "load"
  /\ ActiveRows(alerts) = <<>>
  /\ hist' = [hist EXCEPT ![i].rowReads = @ + 1, ![i].outcome = "empty",
                          ![i].loaded = {r.id : r \in {x \in alerts : x.paused = 0}},
                          ![i].symbols = {r.symbol : r \in {x \in alerts : x.paused = 0}}]
  /\ loc' = [loc EXCEPT ![i] = EmptyLoc]
  /\ Release(i)
  /\ UNCHANGED <<BOT_INSTANCE, cache, now, alerts, nextId, pausedCol,
                 sendCount, nTicks, foundFree, nCmds, nextIteration,
                 adding,
                 ALERTS_CHANNEL_ID, ALERT_LOOP_STARTED, settings,
                 loopRunning, ready, setting, lookups, watchVars>>

\* 1) the SELECT raised (sqlite3.Error): the exception leaves the pass
LoadFail(i) ==
  /\ pc[i] = "load"
  /\ hist' = [hist EXCEPT ![i].outcome = "readfail"]
  /\ loc' = [loc EXCEPT ![i] = EmptyLoc]
  /\ Release(i)
  /\ UNCHANGED <<BOT_INSTANCE, cache, now, alerts, nextId, pausedCol,
                 sendCount, nTicks, foundFree, nCmds, nextIteration,
                 adding,
                 ALERTS_CHANNEL_ID, ALERT_LOOP_STARTED, settings,
                 loopRunning, ready, setting, lookups, watchVars>>

\* the gather taken to return with its first finished task
GatherFirstDone(rest) == TRUE

\* await asyncio.gather(*(fetch_one(sym) ...)) returns when no task is left
GatherDone(rest) == rest = <<>>

\* 2) one fetch_one task of the gather: prices[sym] = await _get_price_cached(sym).
\* resolve_price never yields (requests and yfinance block the event loop), so
\* the task runs from start to end in one step.
FetchLookup(i, n, r) ==
  /\ pc[i] = "gather"
  /\ n \in 1..Len(loc[i].jobs)
  /\ LET sym == loc[i].jobs[n]
         g == GetPriceCached(cache, sym, now, r)
         rest == SeqRemove(loc[i].jobs, n)
     IN /\ cache' = g.cache
        /\ loc' = [loc EXCEPT ![i].jobs = rest,
                              ![i].prices = PricesPut(@, sym, g.ret)]
        /\ hist' = [hist EXCEPT
                      ![i].resolves[sym] = IF g.called THEN @ + 1 ELSE @,
                      ![i].unresolved =
                         IF g.ret.price = None
                         THEN @ \cup {x.id : x \in {y \in SeqSet(loc[i].rows) : y.symbol = sym}}
                         ELSE @]
        /\ pc' = [pc EXCEPT ![i] = IF GatherDone(rest) THEN "eval" ELSE "gather"]
  /\ UNCHANGED <<BOT_INSTANCE, lock, alerts, nextId, pausedCol, sendCount,
                 nTicks, foundFree, passesStarted, nCmds, nextIteration,
                 adding,
                 ALERTS_CHANNEL_ID, ALERT_LOOP_STARTED, settings,
                 loopRunning, ready, setting, lookups, watchVars>>

FetchOne(i, n, r) == FetchLookup(i, n, r) /\ UNCHANGED now

\* the same task with the time the resolver takes: requests.get and yfinance
\* block for d seconds when _get_price_cached calls resolve_price; a lookup
\* served from the cache takes no time
FetchTimed(i, n, r, d) ==
  /\ FetchLookup(i, n, r)
  /\ IF GetPriceCached(cache, loc[i].jobs[n], now, r).called
     THEN now' = now + d
     ELSE d = 0 /\ now' = now

\* the semaphore left out
SemFreeAlways(running) == TRUE

\* sem = asyncio.Semaphore(10); "async with sem" enters while a slot is free
SemFree(running) == Cardinality(running) < FETCH_LIMIT

\* _get_price_cached has read "now = time.time()", missed the cache and
\* awaits resolve_price(symbol)
LookupOpen(l, by, sym, t) ==
  [l EXCEPT !.open = @ \cup {[by |-> by, sym |-> sym, ts |-> t, seq |-> l.started + 1]},
            !.started = @ + 1]

\* resolve_price has returned r to the call:
\* _PRICE_CACHE[symbol] = (price, change, source, now), "now" being the time
\* the call has read before it awaited
LookupStore(c, call, r, t) == CachePut(c, call.sym, r, call.ts)

LookupClose(l, call) ==
  [l EXCEPT !.open = @ \ {call},
            !.last = [x \in (DOMAIN @) \cup {call.sym} |->
                        IF x = call.sym THEN call.seq ELSE @[x]]]

\* the jobs whose task has not entered "async with sem" yet, in task order
Pending(i) == SelectSeq(loc[i].jobs, LAMBDA s : s \notin loc[i].running)

\* 2) fetch_one with a resolver that suspends (one doing asynchronous I/O):
\* the next task enters "async with sem" and _get_price_cached misses the
\* cache and awaits resolve_price
FetchBegin(i) ==
  /\ pc[i] = "gather"
  /\ Pending(i) # <<>>
  /\ SemFree(loc[i].running)
  /\ ~CacheLive(cache, Head(Pending(i)), now)
  /\ loc' = [loc EXCEPT ![i].running = @ \cup {Head(Pending(i))}]
  /\ hist' = [hist EXCEPT ![i].resolves[Head(Pending(i))] = @ + 1]
  /\ lookups' = LookupOpen(lookups, i, Head(Pending(i)), now)
  /\ UNCHANGED <<BOT_INSTANCE, lock, cache, now, alerts, nextId, pausedCol, pc,
                 sendCount, nTicks, foundFree, passesStarted, nCmds,
                 nextIteration, adding,
                 ALERTS_CHANNEL_ID, ALERT_LOOP_STARTED, settings,
                 loopRunning, ready, setting, watchVars>>

\* 2) resolve_price returns r to a suspended fetch_one: the entry is cached,
\* prices[sym] is set and the semaphore is released
FetchEnd(i, sym, r) ==
  /\ pc[i] = "gather"
  /\ sym \in loc[i].running
  /\ LET rest == SelectSeq(loc[i].jobs, LAMBDA s : s # sym)
         call == CHOOSE l \in lookups.open : l.by = i /\ l.sym = sym
     IN /\ cache' = LookupStore(cache, call, r, now)
        /\ lookups' = LookupClose(lookups, call)
        /\ loc' = [loc EXCEPT ![i].jobs = rest,
                              ![i].running = @ \ {sym},
                              ![i].prices = PricesPut(@, sym, r)]
        /\ hist' = [hist EXCEPT
                      ![i].unresolved =
                         IF r.price = None
                         THEN @ \cup {x.id : x \in {y \in SeqSet(loc[i].rows) : y.symbol = sym}}
                         ELSE @]
        /\ pc' = [pc EXCEPT ![i] = IF GatherDone(rest) THEN "eval" ELSE "gather"]
  /\ UNCHANGED <<BOT_INSTANCE, lock, now, alerts, nextId, pausedCol, sendCount,
                 nTicks, foundFree, passesStarted, nCmds, nextIteration,
                 adding,
                 ALERTS_CHANNEL_ID, ALERT_LOOP_STARTED, settings,
                 loopRunning, ready, setting, watchVars>>

\* 3) the for loop runs without yielding over the alerts that are unresolved
\* or not triggered: the index of the next alert that fires, from k on
RECURSIVE NextFire(_, _, _)
NextFire(rows, prices, k) ==
  IF k > Len(rows) THEN k
  ELSE IF Fires(rows[k], PricesGet(prices, rows[k].symbol)) THEN k
       ELSE NextFire(rows, prices, k + 1)

FireAt(i) == NextFire(loc[i].rows, loc[i].prices, loc[i].k)

CurRow(i) == loc[i].rows[loc[i].k]

\* the change left out of the call
SendArgsNoChange(row, p) ==
  [user_id |-> row.user_id, symbol |-> row.symbol, price |-> p.price,
   target |-> row.target, direction |-> row.direction, change |-> None]

\* the arguments of send_alert(user_id, symbol, price, target, direction,
\* change), price and change being those of prices.get(symbol)
SendArgs(row, p) ==
  [user_id |-> row.user_id, symbol |-> row.symbol, price |-> p.price,
   target |-> row.target, direction |-> row.direction, change |-> p.change]

\* 3) a triggered alert: await send_alert(...)
SendStart(i) ==
  /\ pc[i] = "eval"
  /\ FireAt(i) <= Len(loc[i].rows)
  /\ pc' = [pc EXCEPT ![i] = "sending"]
  /\ loc' = [loc EXCEPT ![i].k = FireAt(i), ![i].tier = "channel", ![i].g = 0,
                        ![i].attempts = <<>>,
                        ![i].args =
                           SendArgs(loc[i].rows[FireAt(i)],
                                    PricesGet(loc[i].prices,
                                              loc[i].rows[FireAt(i)].symbol))]
  /\ hist' = [hist EXCEPT ![i].sentIds = @ \cup {loc[i].rows[FireAt(i)].id}]
  /\ sendCount' = [sendCount EXCEPT ![loc[i].rows[FireAt(i)].id] = @ + 1]
  /\ UNCHANGED <<BOT_INSTANCE, lock, cache, now, alerts, nextId, pausedCol,
                 nTicks, foundFree, passesStarted, nCmds, nextIteration,
                 adding,
                 ALERTS_CHANNEL_ID, ALERT_LOOP_STARTED, settings,
                 loopRunning, ready, setting, lookups, watchVars>>

\* the wrong id appended
MarkFiredNext(td, id) == Append(td, id + 1)

\* finally: to_delete.append(alert_id)
MarkFired(td, id) == Append(td, id)

\* send_alert returned (a send went through, or every tier failed quietly)
SendReturn(i, ok) ==
  /\ pc[i] = "sending"
  /\ loc' = [loc EXCEPT ![i].toDelete = MarkFired(@, CurRow(i).id), ![i].k = @ + 1]
  /\ hist' = [hist EXCEPT ![i].doneIds = @ \cup {CurRow(i).id},
                          ![i].marked = SeqSet(MarkFired(loc[i].toDelete, CurRow(i).id)),
                          ![i].delivered = IF ok THEN @ \cup {CurRow(i).id} ELSE @]
  /\ pc' = [pc EXCEPT ![i] = "eval"]
  /\ UNCHANGED <<BOT_INSTANCE, lock, cache, now, alerts, nextId, pausedCol,
                 sendCount, nTicks, foundFree, passesStarted, nCmds,
                 nextIteration, adding,
                 ALERTS_CHANNEL_ID, ALERT_LOOP_STARTED, settings,
                 loopRunning, ready, setting, lookups, watchVars>>

\* send_alert raised (its handlers are "except Exception": a BaseException
\* such as asyncio.CancelledError passes them): the finally clause appends,
\* then the exception leaves the for loop and the pass
SendRaise(i) ==
  /\ pc[i] = "sending"
  /\ loc' = [loc EXCEPT ![i] = EmptyLoc]
  /\ hist' = [hist EXCEPT ![i].doneIds = @ \cup {CurRow(i).id},
                          ![i].marked = SeqSet(MarkFired(loc[i].toDelete, CurRow(i).id)),
                          ![i].outcome = "sendraise"]
  /\ Release(i)
  /\ UNCHANGED <<BOT_INSTANCE, cache, now, alerts, nextId, pausedCol, sendCount,
                 nTicks, foundFree, nCmds, nextIteration, adding,
                 ALERTS_CHANNEL_ID, ALERT_LOOP_STARTED, settings,
                 loopRunning, ready, setting, lookups, watchVars>>

\* ------------------------------------------------------- send_alert
\* the tier send_alert turns to when a tier is unavailable or its send failed
NextTier(tier) == IF tier = "channel" THEN "dm" ELSE "guild"

\* the return (or break) after a successful send left out
AfterSendNoReturn(tier, ok) == NextTier(tier)

\* the exception of a failed send not caught
AfterSendUncaught(tier, ok) == IF ok THEN "done" ELSE "raise"

\* try: await <tier>.send(...); return (break)  except Exception: pass (continue)
AfterSend(tier, ok) == IF ok THEN "done" ELSE NextTier(tier)

Attempt(tier, res) == [tier |-> tier, res |-> res]

\* tier 1: if ALERTS_CHANNEL_ID, and get_channel() gives a TextChannel or a
\* Thread, send there.  avail: "unset", "unreachable" or "ok"
SendChannel(i, avail, ok) ==
  /\ pc[i] = "sending"
  /\ loc[i].tier = "channel"
  /\ (avail = "unset") <=> (ALERTS_CHANNEL_ID = None)
  /\ IF avail = "ok"
     THEN loc' = [loc EXCEPT
                    ![i].attempts = Append(@, Attempt("channel", IF ok THEN "ok" ELSE "fail")),
                    ![i].tier = AfterSend("channel", ok)]
     ELSE /\ ~ok
          /\ loc' = [loc EXCEPT ![i].attempts = Append(@, Attempt("channel", "unavailable")),
                                ![i].tier = NextTier("channel")]
  /\ UNCHANGED <<BOT_INSTANCE, lock, cache, now, alerts, nextId, pausedCol, pc,
                 hist, sendCount, nTicks, foundFree, passesStarted, nCmds,
                 nextIteration, adding,
                 ALERTS_CHANNEL_ID, ALERT_LOOP_STARTED, settings,
                 loopRunning, ready, setting, lookups, watchVars>>

\* tier 2: user = await fetch_user(user_id); if user: await user.send(txt).
\* user: "user", "none" or "raise" (fetch_user raised)
SendDM(i, user, ok) ==
  /\ pc[i] = "sending"
  /\ loc[i].tier = "dm"
  /\ IF user = "user"
     THEN loc' = [loc EXCEPT
                    ![i].attempts = Append(@, Attempt("dm", IF ok THEN "ok" ELSE "fail")),
                    ![i].tier = AfterSend("dm", ok)]
     ELSE /\ ~ok
          /\ loc' = [loc EXCEPT ![i].attempts = Append(@, Attempt("dm", "unavailable")),
                                ![i].tier = NextTier("dm")]
  /\ UNCHANGED <<BOT_INSTANCE, lock, cache, now, alerts, nextId, pausedCol, pc,
                 hist, sendCount, nTicks, foundFree, passesStarted, nCmds,
                 nextIteration, adding,
                 ALERTS_CHANNEL_ID, ALERT_LOOP_STARTED, settings,
                 loopRunning, ready, setting, lookups, watchVars>>

\* tier 3: for guild in BOT_INSTANCE.guilds: if guild.system_channel, send
\* there.  more: the list has a further guild; sys: it has a system channel
SendGuild(i, more, sys, ok) ==
  /\ pc[i] = "sending"
  /\ loc[i].tier = "guild"
  /\ IF more /\ loc[i].g < MaxGuilds
     THEN IF sys
          THEN loc' = [loc EXCEPT
                         ![i].attempts = Append(@, Attempt("guild", IF ok THEN "ok" ELSE "fail")),
                         ![i].g = @ + 1,
                         ![i].tier = AfterSend("guild", ok)]
          ELSE /\ ~ok
               /\ loc' = [loc EXCEPT
                            ![i].attempts = Append(@, Attempt("guild", "unavailable")),
                            ![i].g = @ + 1]
     ELSE /\ ~more /\ ~sys /\ ~ok
          /\ loc' = [loc EXCEPT ![i].tier = "done"]
  /\ UNCHANGED <<BOT_INSTANCE, lock, cache, now, alerts, nextId, pausedCol, pc,
                 hist, sendCount, nTicks, foundFree, passesStarted, nCmds,
                 nextIteration, adding,
                 ALERTS_CHANNEL_ID, ALERT_LOOP_STARTED, settings,
                 loopRunning, ready, setting, lookups, watchVars>>

\* a send of the call went through
Delivered(attempts) == \E k \in 1..Len(attempts) : attempts[k].res = "ok"

\* send_alert is left: by its return, or by an exception no handler caught
SendDone(i) ==
  /\ loc[i].tier \in {"done", "raise"}
  /\ IF loc[i].tier = "done"
     THEN SendReturn(i, Delivered(loc[i].attempts))
     ELSE SendRaise(i)

EvalDone(i) == pc[i] = "eval" /\ FireAt(i) > Len(loc[i].rows)

\* DELETE FROM alerts WHERE id=? for every id of to_delete
DeleteMany(rows, ids) == {r \in rows : r.id \notin ids}

\* 4) if to_delete: executemany DELETE, commit
DeleteBatch(i) ==
  /\ EvalDone(i)
  /\ loc[i].toDelete # <<>>
  /\ alerts' = DeleteMany(alerts, SeqSet(loc[i].toDelete))
  /\ hist' = [hist EXCEPT ![i].rowWrites = @ + 1,
                          ![i].deleted = SeqSet(loc[i].toDelete),
                          ![i].outcome = "completed"]
  /\ loc' = [loc EXCEPT ![i] = EmptyLoc]
  /\ Release(i)
  /\ UNCHANGED <<BOT_INSTANCE, cache, now, nextId, pausedCol, sendCount,
                 nTicks, foundFree, nCmds, nextIteration, adding,
                 ALERTS_CHANNEL_ID, ALERT_LOOP_STARTED, settings,
                 loopRunning, ready, setting, lookups, watchVars>>

\* 4) the DELETE or the commit raised: nothing is deleted
DeleteFail(i) ==
  /\ EvalDone(i)
  /\ loc[i].toDelete # <<>>
  /\ hist' = [hist EXCEPT ![i].outcome = "deletefail"]
  /\ loc' = [loc EXCEPT ![i] = EmptyLoc]
  /\ Release(i)
  /\ UNCHANGED <<BOT_INSTANCE, cache, now, alerts, nextId, pausedCol,
                 sendCount, nTicks, foundFree, nCmds, nextIteration,
                 adding,
                 ALERTS_CHANNEL_ID, ALERT_LOOP_STARTED, settings,
                 loopRunning, ready, setting, lookups, watchVars>>

\* 4) nothing fired: the pass ends without a write
Finish(i) ==
  /\ EvalDone(i)
  /\ loc[i].toDelete = <<>>
  /\ hist' = [hist EXCEPT ![i].outcome = "completed"]
  /\ loc' = [loc EXCEPT ![i] = EmptyLoc]
  /\ Release(i)
  /\ UNCHANGED <<BOT_INSTANCE, cache, now, alerts, nextId, pausedCol,
                 sendCount, nTicks, foundFree, nCmds, nextIteration,
                 adding,
                 ALERTS_CHANNEL_ID, ALERT_LOOP_STARTED, settings,
                 loopRunning, ready, setting, lookups, watchVars>>

\* ------------------------------------------------------- /alert commands
SameTuple(r, u, s, t, d) ==
  r.user_id = u /\ r.symbol = s /\ r.target = t /\ r.direction = d

\* the DELETE left out
DedupeDeleteNone(rows, u, s, t, d) == rows

\* the DELETE with its user_id condition only
DedupeDeleteUser(rows, u, s, t, d) == {r \in rows : r.user_id # u}

\* DELETE FROM alerts WHERE user_id=? AND symbol=? AND target=? AND direction=?
DedupeDelete(rows, u, s, t, d) == {r \in rows : ~SameTuple(r, u, s, t, d)}

\* INSERT INTO alerts (user_id, symbol, target, direction, paused)
\* VALUES (?, ?, ?, ?, 0)
NewRow(id, u, s, t, d) ==
  [id |-> id, user_id |-> u, symbol |-> s, target |-> t, direction |-> d,
   paused |-> 0]

\* the id taken as for a table without AUTOINCREMENT: the largest id in the
\* table plus one
NextRowIdMax(rows, seq) ==
  IF rows = {} THEN 1
  ELSE (CHOOSE m \in {r.id : r \in rows} : \A r \in rows : r.id <= m) + 1

\* id INTEGER PRIMARY KEY AUTOINCREMENT: the id of an inserted row is the next
\* value of the table's sequence, whatever rows the table holds
NextRowId(rows, seq) == seq

\* /alert add: DELETE the identical tuple, INSERT the new row with paused = 0
Add(u, s, t, d) ==
  /\ BOT_INSTANCE
  /\ nCmds < MaxCmds
  /\ nCmds' = nCmds + 1
  /\ nextId <= MaxAlerts
  /\ pausedCol' = TRUE
  /\ LET kept == DedupeDelete(alerts, u, s, t, d)
     IN alerts' = kept \cup {NewRow(NextRowId(kept, nextId), u, s, t, d)}
  /\ nextId' = nextId + 1
  /\ UNCHANGED <<BOT_INSTANCE, lock, cache, now, pc, loc, hist, sendCount,
                 nTicks, foundFree, passesStarted, nextIteration, adding,
                 ALERTS_CHANNEL_ID, ALERT_LOOP_STARTED, settings,
                 loopRunning, ready, setting, lookups, watchVars>>

\* /alert add statement by statement.  Each handler has its own connection;
\* its DELETE opens a write transaction that lasts until its commit, and
\* SQLite lets one connection write at a time: another writer waits (or gives
\* up with "database is locked" and changes nothing).
DbWriteFree == \A h \in Handlers : adding[h].pc \in {"idle", "ready"}

\* the handler runs up to the await of its DELETE
AddBegin(h, u, s, t, d) ==
  /\ BOT_INSTANCE
  /\ nCmds < MaxCmds
  /\ adding[h].pc = "idle"
  /\ nextId + Cardinality({x \in Handlers : adding[x].pc # "idle"}) <= MaxAlerts
  /\ nCmds' = nCmds + 1
  /\ pausedCol' = TRUE
  /\ adding' = [adding EXCEPT ![h] = [IdleAdd EXCEPT !.pc = "ready", !.tuple = <<u, s, t, d>>]]
  /\ UNCHANGED <<BOT_INSTANCE, lock, cache, now, alerts, nextId, pc, loc, hist,
                 sendCount, nTicks, foundFree, passesStarted, nextIteration,
                 ALERTS_CHANNEL_ID, ALERT_LOOP_STARTED, settings,
                 loopRunning, ready, setting, lookups, watchVars>>

\* the DELETE ran in the handler's transaction
AddDelete(h) ==
  /\ adding[h].pc = "ready"
  /\ DbWriteFree
  /\ LET a == adding[h].tuple
         kept == DedupeDelete(alerts, a[1], a[2], a[3], a[4])
     IN adding' = [adding EXCEPT ![h].pc = "deleted", ![h].view = kept,
                                 ![h].gone = alerts \ kept]
  /\ UNCHANGED <<BOT_INSTANCE, lock, cache, now, alerts, nextId, pausedCol, pc,
                 loc, hist, sendCount, nTicks, foundFree, passesStarted, nCmds,
                 nextIteration,
                 ALERTS_CHANNEL_ID, ALERT_LOOP_STARTED, settings,
                 loopRunning, ready, setting, lookups, watchVars>>

\* the INSERT ran in the handler's transaction
AddInsert(h) ==
  /\ adding[h].pc = "deleted"
  /\ LET a == adding[h].tuple
     IN adding' = [adding EXCEPT
                     ![h].pc = "inserted",
                     ![h].view =
                        @ \cup {NewRow(NextRowId(@, nextId), a[1], a[2], a[3], a[4])}]
  /\ UNCHANGED <<BOT_INSTANCE, lock, cache, now, alerts, nextId, pausedCol, pc,
                 loc, hist, sendCount, nTicks, foundFree, passesStarted, nCmds,
                 nextIteration,
                 ALERTS_CHANNEL_ID, ALERT_LOOP_STARTED, settings,
                 loopRunning, ready, setting, lookups, watchVars>>

\* await db.commit(): the transaction becomes the table
AddCommit(h) ==
  /\ adding[h].pc = "inserted"
  /\ alerts' = adding[h].view
  /\ nextId' = nextId + 1
  /\ adding' = [adding EXCEPT ![h].pc = "idle", ![h].view = {}]
  /\ UNCHANGED <<BOT_INSTANCE, lock, cache, now, pausedCol, pc, loc, hist,
                 sendCount, nTicks, foundFree, passesStarted, nCmds,
                 nextIteration,
                 ALERTS_CHANNEL_ID, ALERT_LOOP_STARTED, settings,
                 loopRunning, ready, setting, lookups, watchVars>>

\* /alert remove: DELETE FROM alerts WHERE id=? AND user_id=?
Remove(u, id) ==
  /\ BOT_INSTANCE
  /\ nCmds < MaxCmds
  /\ nCmds' = nCmds + 1
  /\ pausedCol' = TRUE
  /\ alerts' = {r \in alerts : ~(r.id = id /\ r.user_id = u)}
  /\ UNCHANGED <<BOT_INSTANCE, lock, cache, now, nextId, pc, loc, hist,
                 sendCount, nTicks, foundFree, passesStarted,
                 nextIteration, adding,
                 ALERTS_CHANNEL_ID, ALERT_LOOP_STARTED, settings,
                 loopRunning, ready, setting, lookups, watchVars>>

\* the UPDATE taken to flip the flag instead of setting it
SetPausedToggle(rows, u, id, v) ==
  {IF r.id = id /\ r.user_id = u THEN [r EXCEPT !.paused = 1 - @] ELSE r : r \in rows}

\* the UPDATE without "AND user_id=?"
SetPausedAnyOwner(rows, u, id, v) ==
  {IF r.id = id THEN [r EXCEPT !.paused = v] ELSE r : r \in rows}

\* UPDATE alerts SET paused=v WHERE id=? AND user_id=?
SetPaused(rows, u, id, v) ==
  {IF r.id = id /\ r.user_id = u THEN [r EXCEPT !.paused = v] ELSE r : r \in rows}

\* /alert pause: UPDATE alerts SET paused=1 WHERE id=? AND user_id=?
Pause(u, id) ==
  /\ BOT_INSTANCE
  /\ nCmds < MaxCmds
  /\ nCmds' = nCmds + 1
  /\ pausedCol' = TRUE
  /\ alerts' = SetPaused(alerts, u, id, 1)
  /\ UNCHANGED <<BOT_INSTANCE, lock, cache, now, nextId, pc, loc, hist,
                 sendCount, nTicks, foundFree, passesStarted,
                 nextIteration, adding,
                 ALERTS_CHANNEL_ID, ALERT_LOOP_STARTED, settings,
                 loopRunning, ready, setting, lookups, watchVars>>

\* /alert resume: UPDATE alerts SET paused=0 WHERE id=? AND user_id=?
Resume(u, id) ==
  /\ BOT_INSTANCE
  /\ nCmds < MaxCmds
  /\ nCmds' = nCmds + 1
  /\ pausedCol' = TRUE
  /\ alerts' = SetPaused(alerts, u, id, 0)
  /\ UNCHANGED <<BOT_INSTANCE, lock, cache, now, nextId, pc, loc, hist,
                 sendCount, nTicks, foundFree, passesStarted,
                 nextIteration, adding,
                 ALERTS_CHANNEL_ID, ALERT_LOOP_STARTED, settings,
                 loopRunning, ready, setting, lookups, watchVars>>

\* /alert clear: DELETE FROM alerts WHERE user_id=?
Clear(u) ==
  /\ BOT_INSTANCE
  /\ nCmds < MaxCmds
  /\ nCmds' = nCmds + 1
  /\ pausedCol' = TRUE
  /\ alerts' = {r \in alerts : r.user_id # u}
  /\ UNCHANGED <<BOT_INSTANCE, lock, cache, now, nextId, pc, loc, hist,
                 sendCount, nTicks, foundFree, passesStarted,
                 nextIteration, adding, ALERTS_CHANNEL_ID,
                 ALERT_LOOP_STARTED, settings, loopRunning, ready, setting,
                 lookups, watchVars>>

\* what users type as the symbol of /alert test
TestInputs == {"bitcoin", "aapl", "Apple (aapl)"}

\* normalize_symbol: the text between parentheses if there is one, else the
\* whole text, upper-cased and stripped
NormalizeSymbol(s) ==
  CASE s = "bitcoin" -> "BITCOIN"
    [] s = "aapl" -> "AAPL"
    [] s = "Apple (aapl)" -> "AAPL"

\* /alert test: price, change, source = await _get_price_cached(clean).  The
\* lookup runs without yielding, like the one of fetch_one.
TestPrice(s, r) ==
  /\ BOT_INSTANCE
  /\ nCmds < MaxCmds
  /\ nCmds' = nCmds + 1
  /\ cache' = GetPriceCached(cache, NormalizeSymbol(s), now, r).cache
  /\ UNCHANGED <<BOT_INSTANCE, lock, now, alerts, nextId, pausedCol, pc, loc,
                 hist, sendCount, nTicks, foundFree, passesStarted,
                 nextIteration, adding, ALERTS_CHANNEL_ID,
                 ALERT_LOOP_STARTED, settings, loopRunning, ready, setting,
                 lookups, watchVars>>

\* ids of the channels that /alert setchannel is given
Channels == {101, 102}

\* str(channel.id)
IntToStr(n) == CASE n = 101 -> "101" [] n = 102 -> "102"

\* int(row[0])
StrToInt(t) == CASE t = "101" -> 101 [] t = "102" -> 102

\* /alert setchannel: after _ensure_schema, ALERTS_CHANNEL_ID = channel.id;
\* the handler runs up to the await of its INSERT OR REPLACE
SetChannelBegin(c) ==
  /\ BOT_INSTANCE
  /\ nCmds < MaxCmds
  /\ setting.channel = None
  /\ nCmds' = nCmds + 1
  /\ pausedCol' = TRUE
  /\ ALERTS_CHANNEL_ID' = Some(c)
  /\ setting' = [channel |-> Some(c), touched |-> TRUE]
  /\ UNCHANGED <<BOT_INSTANCE, lock, cache, now, alerts, nextId, pc, loc, hist,
                 sendCount, nTicks, foundFree, passesStarted, nextIteration,
                 adding, ALERT_LOOP_STARTED, settings, loopRunning, ready,
                 lookups, watchVars>>

\* INSERT OR REPLACE INTO settings (key, value) VALUES ('alerts_channel',
\* str(channel.id)) and its commit
SetChannelCommit ==
  /\ setting.channel # None
  /\ settings' = Some(IntToStr(setting.channel[1]))
  /\ setting' = [setting EXCEPT !.channel = None]
  /\ UNCHANGED <<BOT_INSTANCE, lock, cache, now, alerts, nextId, pausedCol, pc,
                 loc, hist, sendCount, nTicks, foundFree, passesStarted, nCmds,
                 nextIteration, adding, ALERTS_CHANNEL_ID, ALERT_LOOP_STARTED,
                 loopRunning, ready, lookups, watchVars>>

\* the steps of the calls of alert_checker() made by the callers S
Pass(S) ==
  \/ \E i \in S : StartNoBot(i)
  \/ \E i \in S : Start(i)
  \/ \E i \in S : Enter(i)
  \/ \E i \in S : Load(i)
  \/ \E i \in S : LoadEmpty(i)
  \/ \E i \in S : LoadFail(i)
  \/ \E i \in S, n \in 1..MaxAlerts, r \in PriceResults : FetchOne(i, n, r)
  \/ \E i \in S : SendStart(i)
  \/ \E i \in S, ok \in BOOLEAN : SendReturn(i, ok)
  \/ \E i \in S : SendRaise(i)
  \/ \E i \in S : DeleteBatch(i)
  \/ \E i \in S : DeleteFail(i)
  \/ \E i \in S : Finish(i)

Commands ==
  \/ \E a \in AddInputs : Add(a[1], a[2], a[3], a[4])
  \/ \E u \in Users, id \in AlertIds : Remove(u, id)
  \/ \E u \in Users, id \in AlertIds : Pause(u, id)
  \/ \E u \in Users, id \in AlertIds : Resume(u, id)

\* The program as discord.ext.tasks runs it: the loop awaits one call of
\* alert_checker() before it schedules the next, so calls never overlap (and
\* the lock check never finds the lock held).
Next ==
  \/ SetupAlerts
  \/ \E d \in ClockSteps : AdvanceClock(d)
  \/ Pass({1})
  \/ Commands

Spec == Init /\ [][Next]_vars

\* alert_checker() called again while a call has not returned (the reentrancy
\* case of the lock check), with /alert add as the only command and the
\* clock stopped.
NextOverlap ==
  \/ SetupAlerts
  \/ Pass(Invs)
  \/ \E i \in Invs : Skip(i)
  \/ \E a \in AddInputs : Add(a[1], a[2], a[3], a[4])

SpecOverlap == Init /\ [][NextOverlap]_vars

\* One run of the loop on the clock: ticks a minute apart, resolver calls that
\* take time, /alert add as the only command.  A pass that raises ends the
\* run.
NextTimed ==
  \/ SetupAlerts
  \/ \E a \in AddInputs : Add(a[1], a[2], a[3], a[4])
  \/ StartTimed(1)
  \/ Enter(1)
  \/ Load(1)
  \/ LoadEmpty(1)
  \/ LoadFail(1)
  \/ \E n \in 1..MaxAlerts, r \in PriceResults, d \in Latencies : FetchTimed(1, n, r, d)
  \/ SendStart(1)
  \/ \E ok \in BOOLEAN : SendReturn(1, ok)
  \/ SendRaise(1)
  \/ DeleteBatch(1)
  \/ DeleteFail(1)
  \/ Finish(1)

SpecTimed == Init /\ [][NextTimed]_vars

\* One caller and every /alert command, the clock stopped.
NextCmds ==
  \/ SetupAlerts
  \/ Pass({1})
  \/ Commands
  \/ \E u \in Users : Clear(u)
  \/ \E t \in TestInputs, r \in PriceResults : TestPrice(t, r)
  \/ \E c \in Channels : SetChannelBegin(c)
  \/ SetChannelCommit

SpecCmds == Init /\ [][NextCmds]_vars

\* The steps that tasks.loop and the event loop take by themselves: the next
\* call of alert_checker when it is due, and every step of a call under way.
LoopSteps ==
  \/ StartTimed(1)
  \/ Enter(1)
  \/ Load(1)
  \/ LoadEmpty(1)
  \/ LoadFail(1)
  \/ \E n \in 1..MaxAlerts, r \in PriceResults, d \in Latencies : FetchTimed(1, n, r, d)
  \/ SendStart(1)
  \/ \E ok \in BOOLEAN : SendReturn(1, ok)
  \/ SendRaise(1)
  \/ DeleteBatch(1)
  \/ DeleteFail(1)
  \/ Finish(1)

\* the same run, the loop never starved: a step of the loop that stays
\* possible is taken
SpecTimedFair == SpecTimed /\ WF_vars(LoopSteps)

\* Deferred evaluation: two active alerts of different symbols that no user
\* touches, and a resolver that may fail during the first pass and from the
\* second pass on returns a price that satisfies both alerts.  No store access
\* fails and nothing is cancelled, so the loop keeps ticking.
RetryRows ==
  << [id |-> 1, user_id |-> 1, symbol |-> "bitcoin", target |-> 1,
      direction |-> "above", paused |-> 0],
     [id |-> 2, user_id |-> 2, symbol |-> "AAPL", target |-> 1,
      direction |-> "below", paused |-> 0] >>
GoodPrice == [price |-> Some(1), change |-> Some(-1), source |-> Some("crypto")]
RetryResults(n) == IF n <= 1 THEN {Absent, GoodPrice} ELSE {GoodPrice}

InitRetry ==
  /\ BOT_INSTANCE = TRUE
  /\ lock = 0
  /\ cache = <<>>
  /\ now = 0
  /\ alerts = SeqSet(RetryRows)
  /\ nextId = 3
  /\ pausedCol = TRUE
  /\ pc = [i \in Invs |-> "idle"]
  /\ loc = [i \in Invs |-> EmptyLoc]
  /\ hist = [i \in Invs |-> EmptyHist]
  /\ sendCount = [a \in AlertIds |-> 0]
  /\ nTicks = 0
  /\ foundFree = 0
  /\ passesStarted = 0
  /\ nCmds = 2
  /\ nextIteration = 0
  /\ adding = [h \in Handlers |-> IdleAdd]
  /\ ALERTS_CHANNEL_ID = None
  /\ ALERT_LOOP_STARTED = TRUE
  /\ settings = None
  /\ loopRunning = TRUE
  /\ ready = IdleReady
  /\ setting = IdleSetting
  /\ lookups = IdleLookups
  /\ WatchIdle

\* the loop's next call, at most MaxRetryTicks of them
StartRetry(i) ==
  /\ StartWithin(i, MaxRetryTicks)
  /\ ~Raised(i)
  /\ now' = IF nTicks = 0 THEN now ELSE Max(now, nextIteration)
  /\ nextIteration' = now' + TICK_INTERVAL

NextRetry ==
  \/ StartRetry(1)
  \/ Enter(1)
  \/ Load(1)
  \/ LoadEmpty(1)
  \/ \E n \in 1..MaxAlerts, d \in Latencies, r \in RetryResults(nTicks) :
       FetchTimed(1, n, r, d)
  \/ SendStart(1)
  \/ \E ok \in BOOLEAN : SendReturn(1, ok)
  \/ DeleteBatch(1)
  \/ Finish(1)

SpecRetry == InitRetry /\ [][NextRetry]_vars /\ WF_vars(NextRetry)

\* Overlapping calls of alert_checker() and /alert test on a store that holds
\* two active alerts, the clock stopped.
NextTest ==
  \/ \E i \in Invs : Start(i)
  \/ \E i \in Invs : Skip(i)
  \/ \E i \in Invs : Enter(i)
  \/ \E i \in Invs : Load(i)
  \/ \E i \in Invs : LoadEmpty(i)
  \/ \E i \in Invs : LoadFail(i)
  \/ \E i \in Invs, n \in 1..MaxAlerts, r \in PriceResults : FetchOne(i, n, r)
  \/ \E i \in Invs : SendStart(i)
  \/ \E i \in Invs, ok \in BOOLEAN : SendReturn(i, ok)
  \/ \E i \in Invs : SendRaise(i)
  \/ \E i \in Invs : DeleteBatch(i)
  \/ \E i \in Invs : DeleteFail(i)
  \/ \E i \in Invs : Finish(i)
  \/ \E t \in TestInputs, r \in PriceResults : TestPrice(t, r)

SpecTest == InitRetry /\ [][NextTest]_vars

\* /alert add handlers running concurrently, and /alert pause between them
\* (a writer too: it waits while a transaction is open).
NextAdd ==
  \/ SetupAlerts
  \/ \E h \in Handlers, a \in AddInputs : AddBegin(h, a[1], a[2], a[3], a[4])
  \/ \E h \in Handlers : AddDelete(h)
  \/ \E h \in Handlers : AddInsert(h)
  \/ \E h \in Handlers : AddCommit(h)
  \/ \E u \in Users, id \in AlertIds : DbWriteFree /\ Pause(u, id)

SpecAdd == Init /\ [][NextAdd]_vars

\* Steps 3 and 4 of one pass on one loaded alert, for every direction, target
\* and resolved price of small ranges: the pass has taken the lock, loaded the
\* row and resolved its symbol, and its for loop is about to run.
EvalDirections == {"above", "below", "sideways"}
EvalTargets == {1, 2, 3}
EvalPrices == {0, 1, 2, 3, 4}
EvalResults ==
  {Absent} \cup
  {[price |-> Some(p), change |-> None, source |-> Some("crypto")] : p \in EvalPrices}

EvalRow(t, d) ==
  [id |-> 1, user_id |-> 1, symbol |-> "bitcoin", target |-> t, direction |-> d,
   paused |-> 0]

InitEval ==
  \E t \in EvalTargets, d \in EvalDirections, r \in EvalResults :
    /\ BOT_INSTANCE = TRUE
    /\ lock = 1
    /\ cache = CachePut(<<>>, "bitcoin", r, 0)
    /\ now = 0
    /\ alerts = {EvalRow(t, d)}
    /\ nextId = 2
    /\ pausedCol = TRUE
    /\ pc = [i \in Invs |-> IF i = 1 THEN "eval" ELSE "idle"]
    /\ loc = [i \in Invs |->
               IF i = 1
               THEN [EmptyLoc EXCEPT !.rows = <<EvalRow(t, d)>>,
                                     !.prices = PricesPut(<<>>, "bitcoin", r)]
               ELSE EmptyLoc]
    /\ hist = [i \in Invs |->
                IF i = 1
                THEN [EmptyHist EXCEPT !.schemaReads = 1, !.rowReads = 1,
                                       !.loaded = {1}, !.symbols = {"bitcoin"},
                                       !.resolves["bitcoin"] = 1,
                                       !.unresolved = IF r.price = None THEN {1} ELSE {}]
                ELSE EmptyHist]
    /\ sendCount = [a \in AlertIds |-> 0]
    /\ nTicks = 1
    /\ foundFree = 1
    /\ passesStarted = 1
    /\ nCmds = 1
    /\ nextIteration = 0
    /\ adding = [h \in Handlers |-> IdleAdd]
    /\ ALERTS_CHANNEL_ID = None
    /\ ALERT_LOOP_STARTED = FALSE
    /\ settings = None
    /\ loopRunning = FALSE
    /\ ready = IdleReady
    /\ setting = IdleSetting
    /\ lookups = IdleLookups
    /\ WatchIdle

NextEval ==
  \/ SendStart(1)
  \/ \E ok \in BOOLEAN : SendReturn(1, ok)
  \/ SendRaise(1)
  \/ DeleteBatch(1)
  \/ DeleteFail(1)
  \/ Finish(1)

SpecEval == InitEval /\ [][NextEval]_vars

\* Step 2 of one pass over MaxGather alerts of distinct symbols, with a
\* resolver that suspends: the pass has taken the lock and loaded the rows,
\* the cache is empty and the gather is about to run its tasks.
GatherNames ==
  <<"s01", "s02", "s03", "s04", "s05", "s06", "s07", "s08", "s09", "s10",
    "s11", "s12", "s13">>
GatherSymbols == {GatherNames[n] : n \in 1..MaxGather}
GatherRow(n) ==
  [id |-> n, user_id |-> 1, symbol |-> GatherNames[n], target |-> 1,
   direction |-> "above", paused |-> 0]
GatherRows == [n \in 1..MaxGather |-> GatherRow(n)]

InitGather ==
  /\ BOT_INSTANCE = TRUE
  /\ lock = 1
  /\ cache = <<>>
  /\ now = 0
  /\ alerts = SeqSet(GatherRows)
  /\ nextId = MaxGather + 1
  /\ pausedCol = TRUE
  /\ pc = [i \in Invs |-> IF i = 1 THEN "gather" ELSE "idle"]
  /\ loc = [i \in Invs |->
             IF i = 1
             THEN [EmptyLoc EXCEPT !.rows = GatherRows,
                                   !.jobs = UniqueSymbols(GatherRows)]
             ELSE EmptyLoc]
  /\ hist = [i \in Invs |->
              IF i = 1
              THEN [EmptyHist EXCEPT !.schemaReads = 1, !.rowReads = 1,
                                     !.loaded = 1..MaxGather,
                                     !.symbols = GatherSymbols,
                                     !.resolves = [s \in GatherSymbols |-> 0]]
              ELSE EmptyHist]
  /\ sendCount = [a \in AlertIds |-> 0]
  /\ nTicks = 1
  /\ foundFree = 1
  /\ passesStarted = 1
  /\ nCmds = MaxCmds
  /\ nextIteration = 0
  /\ adding = [h \in Handlers |-> IdleAdd]
  /\ ALERTS_CHANNEL_ID = None
  /\ ALERT_LOOP_STARTED = FALSE
  /\ settings = None
  /\ loopRunning = FALSE
  /\ ready = IdleReady
  /\ setting = IdleSetting
  /\ lookups = IdleLookups
  /\ WatchIdle

NextGather ==
  \/ FetchBegin(1)
  \/ \E sym \in GatherSymbols : FetchEnd(1, sym, Absent)
  \/ Finish(1)

SpecGather == InitGather /\ [][NextGather]_vars

\* Steps 3 and 4 of one pass on two alerts that both trigger, send_alert
\* taken tier by tier with every availability and outcome of each tier; no
\* cancellation.
SendRows ==
  << [id |-> 1, user_id |-> 1, symbol |-> "bitcoin", target |-> 1,
      direction |-> "above", paused |-> 0],
     [id |-> 2, user_id |-> 2, symbol |-> "bitcoin", target |-> 2,
      direction |-> "below", paused |-> 0] >>
SendPrice == [price |-> Some(1), change |-> Some(-1), source |-> Some("crypto")]
ChannelStates == {"unset", "unreachable", "ok"}
UserResults == {"user", "none", "raise"}

InitSend ==
  /\ BOT_INSTANCE = TRUE
  /\ lock = 1
  /\ cache = CachePut(<<>>, "bitcoin", SendPrice, 0)
  /\ now = 0
  /\ alerts = SeqSet(SendRows)
  /\ nextId = 3
  /\ pausedCol = TRUE
  /\ pc = [i \in Invs |-> IF i = 1 THEN "eval" ELSE "idle"]
  /\ loc = [i \in Invs |->
             IF i = 1
             THEN [EmptyLoc EXCEPT !.rows = SendRows,
                                   !.prices = PricesPut(<<>>, "bitcoin", SendPrice)]
             ELSE EmptyLoc]
  /\ hist = [i \in Invs |->
              IF i = 1
              THEN [EmptyHist EXCEPT !.schemaReads = 1, !.rowReads = 1,
                                     !.loaded = {1, 2}, !.symbols = {"bitcoin"},
                                     !.resolves["bitcoin"] = 1]
              ELSE EmptyHist]
  /\ sendCount = [a \in AlertIds |-> 0]
  /\ nTicks = 1
  /\ foundFree = 1
  /\ passesStarted = 1
  /\ nCmds = 2
  /\ nextIteration = 0
  /\ adding = [h \in Handlers |-> IdleAdd]
  /\ ALERTS_CHANNEL_ID \in {None, Some(101)}
  /\ ALERT_LOOP_STARTED = TRUE
  /\ settings = IF ALERTS_CHANNEL_ID = None THEN None ELSE Some("101")
  /\ loopRunning = TRUE
  /\ ready = IdleReady
  /\ setting = IdleSetting
  /\ lookups = IdleLookups
  /\ WatchIdle

NextSend ==
  \/ SendStart(1)
  \/ \E avail \in ChannelStates, ok \in BOOLEAN : SendChannel(1, avail, ok)
  \/ \E user \in UserResults, ok \in BOOLEAN : SendDM(1, user, ok)
  \/ \E more, sys, ok \in BOOLEAN : SendGuild(1, more, sys, ok)
  \/ SendDone(1)
  \/ DeleteBatch(1)
  \/ DeleteFail(1)

SpecSend == InitSend /\ [][NextSend]_vars

\* ------------------------------------------------------- start-up
\* bot.py on_ready: "if row: _alerts.ALERTS_CHANNEL_ID = int(row[0])"
BotRestore(row, cur) == IF row = None THEN cur ELSE Some(StrToInt(row[1]))

\* the text is the decimal form of an integer
IsInt(t) == t \in {"101", "102"}

\* the row read and dropped
RestoreNothing(row, cur) == cur

\* _restore_alert_channel: if row: try ALERTS_CHANNEL_ID = int(row[0])
\* except Exception: ALERTS_CHANNEL_ID = None
RestoreAlertChannel(row, cur) ==
  IF row = None THEN cur
  ELSE IF IsInt(row[1]) THEN Some(StrToInt(row[1])) ELSE None

\* bot.py on_ready (bot.py is taken to open the database file that DB_FILE
\* names): init_db(), then the SELECTs up to the one of 'alerts_channel'
BotRead ==
  /\ BOT_INSTANCE
  /\ ready.bot = "idle"
  /\ ready' = [ready EXCEPT !.bot = "row", !.botRow = settings]
  /\ UNCHANGED <<BOT_INSTANCE, lock, cache, now, alerts, nextId, pausedCol, pc,
                 loc, hist, sendCount, nTicks, foundFree, passesStarted, nCmds,
                 nextIteration, adding, ALERTS_CHANNEL_ID, ALERT_LOOP_STARTED,
                 settings, loopRunning, setting, lookups, watchVars>>

\* the row has come back: the global is assigned, then tree.sync is awaited
BotAssign ==
  /\ ready.bot = "row"
  /\ ALERTS_CHANNEL_ID' = BotRestore(ready.botRow, ALERTS_CHANNEL_ID)
  /\ ready' = [ready EXCEPT !.bot = "sync"]
  /\ UNCHANGED <<BOT_INSTANCE, lock, cache, now, alerts, nextId, pausedCol, pc,
                 loc, hist, sendCount, nTicks, foundFree, passesStarted, nCmds,
                 nextIteration, adding, ALERT_LOOP_STARTED, settings,
                 loopRunning, setting, lookups, watchVars>>

\* alert_checker.start() of discord.ext.tasks: a new task is created unless
\* the task of an earlier start() is not done, and then RuntimeError is raised
LoopStart(running) ==
  [running |-> TRUE, started |-> ~running, raises |-> running]

\* if not alert_checker.is_running(): alert_checker.start()
BotStart ==
  /\ ready.bot = "sync"
  /\ IF ~loopRunning
     THEN /\ loopRunning' = LoopStart(loopRunning).running
          /\ ready' = [ready EXCEPT
                         !.bot = "done",
                         !.starts = IF LoopStart(loopRunning).started THEN @ + 1 ELSE @,
                         !.raised = @ \/ LoopStart(loopRunning).raises]
     ELSE /\ loopRunning' = loopRunning
          /\ ready' = [ready EXCEPT !.bot = "done"]
  /\ UNCHANGED <<BOT_INSTANCE, lock, cache, now, alerts, nextId, pausedCol, pc,
                 loc, hist, sendCount, nTicks, foundFree, passesStarted, nCmds,
                 nextIteration, adding, ALERTS_CHANNEL_ID, ALERT_LOOP_STARTED,
                 settings, setting, lookups, watchVars>>

\* _alerts_on_ready: _ensure_schema(), then the SELECT of
\* _restore_alert_channel
AlertsRead ==
  /\ BOT_INSTANCE
  /\ ready.alerts = "idle"
  /\ pausedCol' = TRUE
  /\ ready' = [ready EXCEPT !.alerts = "row", !.alertsRow = settings]
  /\ UNCHANGED <<BOT_INSTANCE, lock, cache, now, alerts, nextId, pc, loc, hist,
                 sendCount, nTicks, foundFree, passesStarted, nCmds,
                 nextIteration, adding, ALERTS_CHANNEL_ID, ALERT_LOOP_STARTED,
                 settings, loopRunning, setting, lookups, watchVars>>

\* the row has come back: the global is assigned, the connection is closed
AlertsAssign ==
  /\ ready.alerts = "row"
  /\ ALERTS_CHANNEL_ID' = RestoreAlertChannel(ready.alertsRow, ALERTS_CHANNEL_ID)
  /\ ready' = [ready EXCEPT !.alerts = "start"]
  /\ UNCHANGED <<BOT_INSTANCE, lock, cache, now, alerts, nextId, pausedCol, pc,
                 loc, hist, sendCount, nTicks, foundFree, passesStarted, nCmds,
                 nextIteration, adding, ALERT_LOOP_STARTED, settings,
                 loopRunning, setting, lookups, watchVars>>

\* _start_alert_loop_once(): start() raises RuntimeError, which is passed
\* over, when the loop is running already
AlertsStart ==
  /\ ready.alerts = "start"
  /\ IF ~ALERT_LOOP_STARTED /\ ~LoopStart(loopRunning).raises
     THEN /\ loopRunning' = LoopStart(loopRunning).running
          /\ ALERT_LOOP_STARTED' = TRUE
          /\ ready' = [ready EXCEPT
                         !.alerts = "done",
                         !.starts = IF LoopStart(loopRunning).started THEN @ + 1 ELSE @]
     ELSE /\ UNCHANGED <<loopRunning, ALERT_LOOP_STARTED>>
          /\ ready' = [ready EXCEPT !.alerts = "done"]
  /\ UNCHANGED <<BOT_INSTANCE, lock, cache, now, alerts, nextId, pausedCol, pc,
                 loc, hist, sendCount, nTicks, foundFree, passesStarted, nCmds,
                 nextIteration, adding, ALERTS_CHANNEL_ID, settings, setting,
                 lookups, watchVars>>

\* the process ends and is started again: every module global and every
\* coroutine is gone, the database file stays
Restart ==
  /\ ready.boots < MaxRestarts
  /\ BOT_INSTANCE' = FALSE
  /\ ALERTS_CHANNEL_ID' = None
  /\ ALERT_LOOP_STARTED' = FALSE
  /\ loopRunning' = FALSE
  /\ lock' = 0
  /\ cache' = <<>>
  /\ pc' = [i \in Invs |-> "idle"]
  /\ loc' = [i \in Invs |-> EmptyLoc]
  /\ hist' = [i \in Invs |-> EmptyHist]
  /\ nextIteration' = 0
  /\ adding' = [h \in Handlers |-> IdleAdd]
  /\ setting' = IdleSetting
  /\ ready' = [IdleReady EXCEPT !.boots = ready.boots + 1]
  /\ UNCHANGED <<now, alerts, nextId, pausedCol, sendCount, nTicks, foundFree,
                 passesStarted, nCmds, settings, lookups, watchVars>>

\* the running loop calls alert_checker()
LoopCall(i) == loopRunning /\ Start(i)

\* A process from its start: the on_ready handlers, /alert setchannel, the
\* passes of the loop with send_alert taken tier by tier over one stored
\* alert, and a restart.
InitRestart ==
  /\ BOT_INSTANCE = FALSE
  /\ lock = 0
  /\ cache = <<>>
  /\ now = 0
  /\ alerts = {RetryRows[1]}
  /\ nextId = 2
  /\ pausedCol = TRUE
  /\ pc = [i \in Invs |-> "idle"]
  /\ loc = [i \in Invs |-> EmptyLoc]
  /\ hist = [i \in Invs |-> EmptyHist]
  /\ sendCount = [a \in AlertIds |-> 0]
  /\ nTicks = 0
  /\ foundFree = 0
  /\ passesStarted = 0
  /\ nCmds = 1
  /\ nextIteration = 0
  /\ adding = [h \in Handlers |-> IdleAdd]
  /\ ALERTS_CHANNEL_ID = None
  /\ ALERT_LOOP_STARTED = FALSE
  /\ settings = None
  /\ loopRunning = FALSE
  /\ ready = IdleReady
  /\ setting = IdleSetting
  /\ lookups = IdleLookups
  /\ WatchIdle

NextRestart ==
  \/ SetupAlerts
  \/ BotRead
  \/ BotAssign
  \/ BotStart
  \/ AlertsRead
  \/ AlertsAssign
  \/ AlertsStart
  \/ \E c \in Channels : SetChannelBegin(c)
  \/ SetChannelCommit
  \/ Restart
  \/ LoopCall(1)
  \/ Enter(1)
  \/ Load(1)
  \/ LoadEmpty(1)
  \/ \E n \in 1..MaxAlerts : FetchOne(1, n, GoodPrice)
  \/ SendStart(1)
  \/ \E avail \in ChannelStates, ok \in BOOLEAN : SendChannel(1, avail, ok)
  \/ \E ok \in BOOLEAN : SendDM(1, "user", ok)
  \/ \E more \in BOOLEAN : SendGuild(1, more, more, more)
  \/ SendDone(1)
  \/ DeleteBatch(1)

SpecRestart == InitRestart /\ [][NextRestart]_vars

\* ================================================================ claims
InPass(i) == pc[i] \in {"load", "gather", "eval", "sending"}

Returned(i) == pc[i] = "idle" /\ hist[i].outcome # "none"

NoRowAccess(i) ==
  /\ hist[i].rowReads = 0
  /\ hist[i].rowWrites = 0
  /\ \A s \in Symbols : hist[i].resolves[s] = 0
  /\ hist[i].sentIds = {}
  /\ hist[i].deleted = {}

\* C1: at most one call of alert_checker is inside the section guarded by
\* _ALERT_LOOP_LOCK (load, resolve, evaluate, deliver, delete) at any time,
\* whatever the interleaving of overlapping calls.
C1_AtMostOnePass == Cardinality({i \in Invs : InPass(i)}) <= 1

\* a second call is in flight while a first one is inside the section
C1_Witness ==
  \E i, j \in Invs : i # j /\ pc[i] \in {"gather", "sending"} /\ pc[j] = "schema"

\* C2 as stated: a call that starts while an earlier call has not returned
\* performs no store read, no store write and no resolver call before it returns.
C2_OverlappingCallTouchesNothing ==
  \A i \in Invs :
    (Returned(i) /\ hist[i].overlap) =>
      /\ hist[i].schemaReads + hist[i].rowReads = 0
      /\ hist[i].schemaWrites + hist[i].rowWrites = 0
      /\ \A s \in Symbols : hist[i].resolves[s] = 0

\* C2 amended: a call that finds _ALERT_LOOP_LOCK held at its check reads no
\* alert row, writes no alert row, calls no resolver and sends nothing; its
\* only store access is the _ensure_schema call made before the check.
C2_SkippedCallTouchesNoRows ==
  \A i \in Invs : hist[i].foundHeld => NoRowAccess(i)

\* a call found the lock held, ran _ensure_schema and returned
C2_Witness ==
  \E i \in Invs :
    /\ Returned(i)
    /\ hist[i].foundHeld
    /\ hist[i].outcome = "skipped"
    /\ hist[i].schemaReads = 1

\* C3: a call that finds the lock held is skipped: no call ever waits on
\* _ALERT_LOOP_LOCK, and the passes started never outnumber the lock checks
\* that found the lock free.
C3_SkipNotQueue ==
  /\ \A i \in Invs : pc[i] # "waiting"
  /\ passesStarted <= foundFree

\* a call was skipped, the pass it met has ended, and no pass came of the skip
C3_Witness ==
  /\ \E i \in Invs : Returned(i) /\ hist[i].outcome = "skipped"
  /\ \A i \in Invs : pc[i] = "idle"
  /\ lock = 0
  /\ nTicks = MaxTicks
  /\ passesStarted < nTicks

\* C4 as stated: a pass that loads zero active alerts performs zero resolver
\* calls and zero store writes.
C4_EmptyPassWritesNothing ==
  \A i \in Invs :
    (hist[i].rowReads > 0 /\ hist[i].loaded = {}) =>
      /\ \A s \in Symbols : hist[i].resolves[s] = 0
      /\ hist[i].schemaWrites + hist[i].rowWrites = 0

\* C4 amended: a pass that loads zero active alerts performs zero resolver
\* calls, sends nothing and writes no alert row; the only store write of such
\* a call is the schema creation of _ensure_schema, made before the lock is
\* taken when the paused column is missing.
C4_EmptyPassTouchesNoRows ==
  \A i \in Invs :
    (hist[i].rowReads > 0 /\ hist[i].loaded = {}) =>
      /\ \A s \in Symbols : hist[i].resolves[s] = 0
      /\ hist[i].rowWrites = 0
      /\ hist[i].sentIds = {}
      /\ hist[i].deleted = {}

\* a pass found only paused alerts and returned
C4_Witness ==
  \E i \in Invs :
    /\ Returned(i)
    /\ hist[i].outcome = "empty"
    /\ alerts # {}
    /\ \A r \in alerts : r.paused = 1

\* C5: within one pass the resolver is called at most once for each distinct
\* symbol of the loaded alerts, and not at all for any other symbol.
C5_OneResolvePerSymbol ==
  \A i \in Invs : \A s \in Symbols :
    hist[i].resolves[s] <= (IF s \in hist[i].symbols THEN 1 ELSE 0)

\* two loaded alerts share a symbol, and the pass has resolved it once
C5_Witness ==
  \E i \in Invs :
    /\ pc[i] = "eval"
    /\ Cardinality(hist[i].loaded) = 2
    /\ Cardinality(hist[i].symbols) = 1
    /\ \E s \in hist[i].symbols : hist[i].resolves[s] = 1

\* the trigger predicate as the claim states it
Predicate(row, p) ==
  /\ p.price # None
  /\ \/ row.direction = "above" /\ p.price[1] >= row.target
     \/ row.direction = "below" /\ p.price[1] <= row.target

RowPrice(i, n) == PricesGet(loc[i].prices, loc[i].rows[n].symbol)

\* C6: a loaded alert whose symbol resolved to p is triggered in the pass
\* (send_alert is called for it) iff direction = above and p >= t, or
\* direction = below and p <= t: nothing is sent for an alert that fails the
\* predicate, and a pass that runs to its end has sent for every alert that
\* satisfies it.  p = t triggers in both directions; any other direction
\* never triggers.
C6_TriggeredIffPredicate ==
  /\ [](\A i \in Invs :
          pc[i] \in {"eval", "sending"} =>
            \A n \in 1..Len(loc[i].rows) :
              loc[i].rows[n].id \in hist[i].sentIds =>
                Predicate(loc[i].rows[n], RowPrice(i, n)))
  /\ [][\A i \in Invs :
          (pc[i] \in {"eval", "sending"} /\ pc'[i] = "idle"
             /\ hist'[i].outcome \in {"completed", "deletefail"}) =>
            \A n \in 1..Len(loc[i].rows) :
              loc[i].rows[n].id \in hist'[i].sentIds <=>
                Predicate(loc[i].rows[n], RowPrice(i, n))]_vars

\* send_alert is running for a "below" alert whose price equals its target
C6_Witness ==
  \E i \in Invs :
    /\ pc[i] = "sending"
    /\ CurRow(i).direction = "below"
    /\ RowPrice(i, loc[i].k).price = Some(CurRow(i).target)

\* C7: an alert whose symbol came back all-absent in a pass is not delivered,
\* not marked, not deleted and not modified by that pass: no step of the
\* evaluator changes or removes its row, so the next load finds it as it was.
C7_UnresolvedUntouched ==
  /\ [](\A i \in Invs :
          hist[i].unresolved \cap
            (hist[i].sentIds \cup hist[i].marked \cup hist[i].deleted) = {})
  /\ [][nCmds' = nCmds =>
          \A i \in Invs : \A r \in alerts :
            r.id \in hist[i].unresolved => r \in alerts']_vars

\* a pass deleted a triggered alert and left an unresolved one, still active
C7_Witness ==
  \E i \in Invs :
    /\ Returned(i)
    /\ hist[i].outcome = "completed"
    /\ hist[i].deleted # {}
    /\ \E r \in alerts : r.id \in hist[i].unresolved /\ r.paused = 0

\* C8 as stated: every alert that triggered in a pass is absent from the store
\* once the pass has ended, whether its delivery succeeded, failed or raised.
C8_TriggeredIsConsumed ==
  \A i \in Invs :
    Returned(i) => \A r \in alerts : r.id \notin hist[i].sentIds

\* C9 as stated: send_alert is called at most once for an alert id, over all
\* passes.
C9_AtMostOneSend == \A a \in AlertIds : sendCount[a] <= 1

\* C10: every id the evaluator deletes had send_alert called for it earlier
\* in the same pass, and an id enters to_delete only after its send_alert
\* call has returned or raised (never while the call is running).
C10_SendBeforeMark ==
  \A i \in Invs :
    /\ hist[i].marked \subseteq hist[i].doneIds
    /\ SeqSet(loc[i].toDelete) \subseteq hist[i].doneIds
    /\ hist[i].doneIds \subseteq hist[i].sentIds
    /\ hist[i].deleted \subseteq hist[i].doneIds
    /\ pc[i] = "sending" =>
         /\ CurRow(i).id \in hist[i].sentIds
         /\ CurRow(i).id \notin hist[i].marked
         /\ CurRow(i).id \notin SeqSet(loc[i].toDelete)

\* a pass has deleted two alerts, each after its send
C10_Witness ==
  \E i \in Invs :
    /\ Returned(i)
    /\ Cardinality(hist[i].deleted) = 2
    /\ hist[i].deleted = hist[i].doneIds

\* C11: within a pass nothing is evaluated, delivered or marked for deletion
\* while a fetch_one of the pass has not settled: the for loop of step 3
\* starts only when every distinct symbol of the loaded alerts has its entry
\* in prices.
C11_EvalAfterGather ==
  \A i \in Invs :
    /\ pc[i] \in {"eval", "sending"} =>
         /\ loc[i].jobs = <<>>
         /\ \A n \in 1..Len(loc[i].rows) :
              loc[i].rows[n].symbol \in DOMAIN loc[i].prices
    /\ pc[i] = "gather" =>
         /\ hist[i].sentIds = {}
         /\ loc[i].toDelete = <<>>
         /\ hist[i].deleted = {}

\* send_alert is running in a pass that had two symbols to resolve
C11_Witness ==
  \E i \in Invs :
    /\ pc[i] = "sending"
    /\ Cardinality(hist[i].symbols) = 2
    /\ Cardinality(DOMAIN loc[i].prices) = 2

\* C12: at every moment of a pass at most 10 of its cache lookups (and so at
\* most 10 resolver calls) are in flight, for any number of distinct symbols.
C12_AtMostTenInFlight ==
  \A i \in Invs : Cardinality(loc[i].running) <= 10

\* ten lookups are in flight and a further task is waiting for the semaphore
C12_Witness ==
  \E i \in Invs :
    /\ pc[i] = "gather"
    /\ Cardinality(loc[i].running) = 10
    /\ Pending(i) # <<>>

\* this step is the lookup _get_price_cached(s) of pass i
LookupStep(i, s) ==
  /\ pc[i] = "gather"
  /\ s \notin DOMAIN loc[i].prices
  /\ s \in DOMAIN loc'[i].prices

\* the (price, change, source) of a cache entry
Tuple3(e) == [price |-> e.price, change |-> e.change, source |-> e.source]

\* the call made no resolver call and left the cache as it was
Served(i, s) ==
  /\ hist'[i].resolves[s] = hist[i].resolves[s]
  /\ cache' = cache
  /\ loc'[i].prices[s] = Tuple3(cache[s])

\* the call made one resolver call and stored what it returns, stamped with
\* the time at which the lookup was made
Refetched(i, s) ==
  /\ hist'[i].resolves[s] = hist[i].resolves[s] + 1
  /\ s \in DOMAIN cache'
  /\ cache'[s].ts = now
  /\ Tuple3(cache'[s]) = loc'[i].prices[s]
  /\ \A x \in DOMAIN cache : x # s => cache'[x] = cache[x]

\* C13: _get_price_cached(symbol) returns the stored tuple without a resolver
\* call when a live entry exists; otherwise it calls the resolver once, stores
\* the tuple (all-absent included) with the current timestamp and returns
\* exactly what it stored.
C13_CachedLookupContract ==
  [][\A i \in Invs : \A s \in Symbols :
       LookupStep(i, s) =>
         IF s \in DOMAIN cache /\ now - cache[s].ts < 55
         THEN Served(i, s)
         ELSE Refetched(i, s)]_vars

\* a pass has taken one symbol from the cache and fetched the other
C13_Witness ==
  \E i \in Invs :
    /\ pc[i] = "eval"
    /\ \E s, t \in DOMAIN loc[i].prices :
         /\ hist[i].resolves[s] = 0
         /\ hist[i].resolves[t] = 1
         /\ cache[t].ts > cache[s].ts

\* C14: an entry stamped T is served at T + 54 and at any earlier time, and
\* is fetched again at T + 55 or later, T being the time at which the lookup
\* that produced the entry was made, however long its resolver call took.
C14_TtlBoundary ==
  [][\A i \in Invs : \A s \in Symbols :
       (LookupStep(i, s) /\ s \in DOMAIN cache) =>
         /\ now - cache[s].ts <= 54 => Served(i, s)
         /\ now - cache[s].ts >= 55 =>
              /\ hist'[i].resolves[s] = hist[i].resolves[s] + 1
              /\ cache'[s].ts = now]_vars

\* a lookup was served from an entry 54 seconds old, produced by a resolver
\* call that took 6 seconds
C14_Witness ==
  \E i \in Invs : \E s \in DOMAIN loc[i].prices :
    /\ hist[i].resolves[s] = 0
    /\ now - cache[s].ts = 54
    /\ cache[s].ts = 6

\* C15: an all-absent result is cached like any other: it is stored when the
\* resolver returns it, and a lookup of the symbol within the TTL returns
\* (None, None, None) without a resolver call.
C15_AbsentIsCached ==
  [][\A i \in Invs : \A s \in Symbols :
       LookupStep(i, s) =>
         /\ (s \in DOMAIN cache /\ cache[s].price = None
               /\ now - cache[s].ts < 55) =>
              /\ loc'[i].prices[s] = Absent
              /\ hist'[i].resolves[s] = hist[i].resolves[s]
         /\ (hist'[i].resolves[s] # hist[i].resolves[s]
               /\ loc'[i].prices[s] = Absent) =>
              /\ s \in DOMAIN cache'
              /\ Tuple3(cache'[s]) = Absent
              /\ cache'[s].ts = now]_vars

\* a later pass got the all-absent tuple of an earlier one from the cache
C15_Witness ==
  \E i \in Invs : \E s \in DOMAIN loc[i].prices :
    /\ nTicks = 2
    /\ hist[i].resolves[s] = 0
    /\ loc[i].prices[s] = Absent
    /\ cache[s].price = None

\* C16 as stated: every lookup of a pass makes a fresh resolver call: no
\* entry written during one pass is served to a lookup of a later pass.
C16_FreshFetchEveryPass ==
  \A i \in Invs : \A s \in DOMAIN loc[i].prices : hist[i].resolves[s] = 1

\* C16 amended: an entry written during one pass is served to a lookup of a
\* later pass only if it is less than 55 seconds old at that lookup, so only
\* if it was stamped less than 55 seconds before the later pass began.
C16_ServedOnlyWhileLive ==
  \A i \in Invs : \A s \in DOMAIN loc[i].prices :
    hist[i].resolves[s] = 0 => cache[s].ts + 55 > nextIteration - 60

\* the second pass was served an entry that the first pass wrote
C16_Witness ==
  \E i \in Invs : \E s \in DOMAIN loc[i].prices :
    /\ nTicks = 2
    /\ hist[i].resolves[s] = 0
    /\ cache[s].ts >= 5

TierRank(t) == IF t = "channel" THEN 1 ELSE IF t = "dm" THEN 2 ELSE 3

\* C17: send_alert takes its tiers in the order channel, direct message,
\* guild system channels; a send is attempted only if every earlier tier was
\* unavailable or its send failed, so at most one send succeeds in a call and
\* nothing is attempted after a send that went through.
C17_TiersInOrder ==
  \A i \in Invs :
    LET a == loc[i].attempts
    IN /\ \A j, k \in 1..Len(a) : j < k =>
            /\ TierRank(a[j].tier) <= TierRank(a[k].tier)
            /\ a[j].res \in {"fail", "unavailable"}
       /\ Cardinality({k \in 1..Len(a) : a[k].res = "ok"}) <= 1
       /\ Cardinality({k \in 1..Len(a) : a[k].tier = "channel"}) <= 1
       /\ Cardinality({k \in 1..Len(a) : a[k].tier = "dm"}) <= 1
       /\ loc[i].tier = "done" =>
            \A k \in 1..Len(a) : a[k].res = "ok" => k = Len(a)

\* the channel send and the direct message failed, the first guild has no
\* system channel, and the send to the second guild went through
C17_Witness ==
  \E i \in Invs :
    /\ loc[i].tier = "done"
    /\ Len(loc[i].attempts) = 4
    /\ loc[i].attempts[1] = Attempt("channel", "fail")
    /\ loc[i].attempts[2] = Attempt("dm", "fail")
    /\ loc[i].attempts[3] = Attempt("guild", "unavailable")
    /\ loc[i].attempts[4] = Attempt("guild", "ok")

\* C18: a delivery that fails at every tier does not fail the pass: the pass
\* never ends by an exception of send_alert, it sends for every triggered
\* alert, marks each of them and runs its batch delete.
C18_FailedDeliveryKeepsPass ==
  \A i \in Invs :
    /\ hist[i].outcome # "sendraise"
    /\ loc[i].tier # "raise"
    /\ Returned(i) =>
         /\ hist[i].outcome \in {"completed", "deletefail"}
         /\ hist[i].sentIds = {1, 2}
         /\ hist[i].marked = {1, 2}

\* every send of both alerts failed, and the pass deleted both
C18_Witness ==
  \E i \in Invs :
    /\ Returned(i)
    /\ hist[i].outcome = "completed"
    /\ hist[i].delivered = {}
    /\ hist[i].deleted = {1, 2}
    /\ alerts = {}

\* C19: after any /alert add operations, concurrent ones included, the store
\* holds at most one alert per (owner, symbol, target, direction); an add of
\* a tuple that is already stored leaves exactly one such alert, and that
\* alert is active even if the earlier one was paused.
C19_OneAlertPerTuple ==
  /\ [](\A r1, r2 \in alerts :
          SameTuple(r1, r2.user_id, r2.symbol, r2.target, r2.direction) => r1 = r2)
  /\ [][\A h \in Handlers :
          (adding[h].pc = "inserted" /\ adding'[h].pc = "idle") =>
            LET a == adding[h].tuple
                same == {r \in alerts' : SameTuple(r, a[1], a[2], a[3], a[4])}
            IN /\ Cardinality(same) = 1
               /\ \A r \in same : r.paused = 0]_vars

\* an add has replaced a paused alert of the same tuple by an active one
C19_Witness ==
  \E h \in Handlers :
    /\ adding[h].pc = "idle"
    /\ \E g \in adding[h].gone :
         /\ g.paused = 1
         /\ \E r \in alerts :
              /\ SameTuple(r, g.user_id, g.symbol, g.target, g.direction)
              /\ r.paused = 0
              /\ r.id > g.id

\* C20 as stated: the evaluator never calls send_alert for, and never
\* deletes, an alert that is paused in the store at that moment, also when
\* the alert is paused after the pass has loaded it.
C20_PausedNeverFires ==
  [][\A i \in Invs :
       /\ (pc[i] = "eval" /\ pc'[i] = "sending") =>
            \A r \in alerts : r.id = loc'[i].rows[loc'[i].k].id => r.paused = 0
       /\ (pc[i] = "eval" /\ pc'[i] = "idle") =>
            \A r \in alerts \ alerts' : r.paused = 0]_vars

\* the ids of the alert records of a table
Ids(rows) == {r.id : r \in rows}

\* C21 as stated: an alert record leaves the store only in the evaluator's
\* end-of-pass batch delete or in /alert remove or /alert clear; no other
\* operation deletes an existing record.
C21_DeletedOnlyByPassOrRemoval ==
  [][Ids(alerts) \ Ids(alerts') # {} =>
       \/ \E i \in Invs : DeleteBatch(i)
       \/ \E u \in Users, id \in AlertIds : Remove(u, id)
       \/ \E u \in Users : Clear(u)]_vars

\* C21 amended: an alert record leaves the store only in the evaluator's
\* end-of-pass batch delete, in /alert remove or /alert clear, or in the
\* de-duplication of /alert add, which deletes the stored records of the
\* tuple being added, and only those, and inserts one active record of that
\* tuple under a new id; pause, resume, setchannel and test delete nothing.
C21_DeletedOnlyByPassRemovalOrDedupe ==
  [][\A r \in alerts : r.id \notin Ids(alerts') =>
       \/ \E i \in Invs : DeleteBatch(i)
       \/ \E u \in Users, id \in AlertIds : Remove(u, id)
       \/ \E u \in Users : Clear(u)
       \/ \E a \in AddInputs :
            /\ Add(a[1], a[2], a[3], a[4])
            /\ SameTuple(r, a[1], a[2], a[3], a[4])
            /\ \E n \in alerts' :
                 /\ n.id = nextId
                 /\ n.id > r.id
                 /\ SameTuple(n, a[1], a[2], a[3], a[4])
                 /\ n.paused = 0]_vars

\* two /alert add of the same tuple and nothing else: the second one has
\* deleted alert 1 and stored alert 2
C21_Witness ==
  /\ nTicks = 0
  /\ nCmds = 2
  /\ nextId = 3
  /\ Ids(alerts) = {2}

\* the call has ended by an exception of a store access
StoreFailed(i) == Returned(i) /\ hist[i].outcome \in {"readfail", "deletefail"}

\* C22 as stated: a store access failure ends the current pass only: a pass
\* whose load read failed has resolved, delivered and deleted nothing, and
\* after a pass that a store access failed the next scheduled tick still runs
\* a pass.
C22_StoreFailureEndsPassOnly ==
  /\ [](\A i \in Invs :
          hist[i].outcome = "readfail" =>
            /\ \A s \in Symbols : hist[i].resolves[s] = 0
            /\ hist[i].sentIds = {}
            /\ hist[i].deleted = {})
  /\ \A n \in 1..(MaxTicks - 1) :
       (nTicks = n /\ \E i \in Invs : StoreFailed(i)) ~> (nTicks > n)

\* C23: deferred evaluation is retried by the schedule: an alert that stays
\* active and whose symbol was unresolved in a pass is looked up again in a
\* later pass, so once the resolver returns a price that satisfies the
\* alert, send_alert is called for it and it is deleted (the loop ticking,
\* every resolver call returning).
C23_DeferredIsRetried ==
  \A a \in AlertIds :
    (\E i \in Invs : a \in hist[i].unresolved)
      ~> (a \notin Ids(alerts) /\ sendCount[a] > 0)

\* the third pass has deleted alert 2: it was deferred in the first pass and
\* again in the second, which was served the cached all-absent entry
C23_Witness ==
  \E i \in Invs :
    /\ nTicks = 3
    /\ Returned(i)
    /\ hist[i].deleted = {2}
    /\ sendCount[2] = 1

\* the entries of the cache other than that of s are left as they were
OnlyEntryChanged(s) ==
  /\ DOMAIN cache' = DOMAIN cache \cup {s}
  /\ \A x \in DOMAIN cache : x # s => cache'[x] = cache[x]

StoredChannel == IF settings = None THEN None ELSE Some(StrToInt(settings[1]))

\* C25: the configured channel survives a restart: in a process started
\* after /alert setchannel(c) has completed, and in which no setchannel has
\* run yet, ALERTS_CHANNEL_ID equals the last channel stored from the moment
\* an on_ready handler has restored it, and so whenever the loop is running
\* and whenever a pass delivers.
C25_ChannelSurvivesRestart ==
  (/\ ready.boots >= 1
   /\ ~setting.touched
   /\ \/ loopRunning
      \/ ready.bot \in {"sync", "done"}
      \/ ready.alerts \in {"start", "done"}
      \/ \E i \in Invs : pc[i] # "idle")
    => ALERTS_CHANNEL_ID = StoredChannel

\* channel 101 then channel 102 were set, the process was restarted, and the
\* first send_alert of the new process has posted to channel 102
C25_Witness ==
  \E i \in Invs :
    /\ ready.boots = 1
    /\ ~setting.touched
    /\ nCmds = 3
    /\ settings = Some("102")
    /\ ALERTS_CHANNEL_ID = Some(102)
    /\ pc[i] = "sending"
    /\ sendCount[1] = 1
    /\ loc[i].attempts = <<Attempt("channel", "ok")>>

\* C26: _ALERT_LOOP_LOCK is released on every exit path of a pass (the early
\* return on zero alerts, the normal end, an exception of a store access or
\* of a delivery): the lock is held only by a call that is inside the guarded
\* block, so it is free whenever no call is, and a call is skipped only
\* while another call is inside the block.
C26_LockReleasedOnExit ==
  /\ [](\A i \in Invs : lock = i => InPass(i))
  /\ []((\A i \in Invs : ~InPass(i)) => lock = 0)
  /\ [][\A i \in Invs :
          (pc[i] = "schema" /\ pc'[i] = "idle") =>
            \E j \in Invs \ {i} : InPass(j)]_vars

\* a pass was ended by the exception of its load read, and the call that
\* checked the lock after it found it free and is inside the block
C26_Witness ==
  \E i, j \in Invs :
    /\ Returned(i)
    /\ hist[i].outcome = "readfail"
    /\ hist[j].overlap
    /\ pc[j] = "load"
    /\ lock = j

\* the ids of the loaded alerts of pass i that satisfy the trigger predicate
TriggeredIds(i) ==
  {loc[i].rows[n].id :
     n \in {m \in 1..Len(loc[i].rows) : Predicate(loc[i].rows[m], RowPrice(i, m))}}

\* C27: the evaluator's only effect on the alert records is the deletion of
\* triggered alerts: a step of alert_checker either leaves the table as it
\* is, or ends a pass and removes exactly the records whose ids the pass
\* loaded (active at its load) and found triggered; every other record stays
\* with all its fields, the paused flag included.
C27_OnlyTriggeredDeleted ==
  [][nCmds' = nCmds =>
       \/ alerts' = alerts
       \/ \E i \in Invs :
            /\ pc[i] = "eval"
            /\ pc'[i] = "idle"
            /\ TriggeredIds(i) \subseteq hist[i].loaded
            /\ alerts' = {r \in alerts : r.id \notin TriggeredIds(i)}]_vars

\* a pass has deleted the alert that triggered and left a paused one
C27_Witness ==
  \E i \in Invs :
    /\ Returned(i)
    /\ hist[i].outcome = "completed"
    /\ Cardinality(hist[i].deleted) = 1
    /\ Cardinality(alerts) = 1
    /\ \A r \in alerts : r.paused = 1 /\ r.id \notin hist[i].loaded

\* C28 as stated: the evaluator never calls send_alert for an alert that is
\* absent from the store at that moment, also when the owner removes or
\* clears the alert while the pass that loaded it is still running.
C28_NoDeliveryForRemoved ==
  [][\A i \in Invs :
       (pc[i] = "eval" /\ pc'[i] = "sending") =>
         loc'[i].rows[loc'[i].k].id \in Ids(alerts)]_vars

\* C29: the end-of-pass batch delete never removes an alert created after the
\* load of its pass.  Alert ids are never reused: every stored and every
\* loaded id is below the table's sequence, an inserted row takes the next
\* value of the sequence, and the batch delete removes only ids that the
\* pass loaded; so an alert added while the pass runs, an identical one
\* included, has an id the pass never loaded and survives its cleanup.
C29_NewAlertSurvivesCleanup ==
  /\ [](\A r \in alerts : r.id < nextId)
  /\ [](\A i \in Invs : \A a \in hist[i].loaded : a < nextId)
  /\ [][/\ nextId' >= nextId
        /\ Ids(alerts') \ Ids(alerts) =
             (IF nextId' = nextId THEN {} ELSE {nextId})
        /\ \A i \in Invs :
             (pc[i] = "eval" /\ pc'[i] = "idle") =>
               Ids(alerts) \ Ids(alerts') \subseteq hist[i].loaded]_vars

\* the only pass so far loaded and deleted alert 1; alert 2, added while the
\* pass ran and triggered by the price the pass resolved, is in the store
C29_Witness ==
  \E i \in Invs :
    /\ nTicks = 1
    /\ Returned(i)
    /\ hist[i].loaded = {1}
    /\ hist[i].deleted = {1}
    /\ \E r \in alerts :
         /\ r.id = 2
         /\ r.symbol = "bitcoin"
         /\ r.symbol \in DOMAIN cache
         /\ Fires(r, Tuple3(cache[r.symbol]))

\* C30: within one pass every alert of a symbol is evaluated against the one
\* value resolved for that symbol (the entry of prices, which never changes
\* once it is set), and the price and change handed to send_alert are the
\* values on which the trigger predicate of the alert was evaluated.
C30_OnePricePerSymbol ==
  /\ [](\A i \in Invs :
          pc[i] = "sending" =>
            /\ loc[i].args.price = RowPrice(i, loc[i].k).price
            /\ loc[i].args.change = RowPrice(i, loc[i].k).change
            /\ loc[i].args.symbol = CurRow(i).symbol
            /\ Predicate(CurRow(i),
                         [price |-> loc[i].args.price, change |-> loc[i].args.change,
                          source |-> RowPrice(i, loc[i].k).source]))
  /\ [][\A i \in Invs : \A s \in DOMAIN loc[i].prices :
          pc'[i] # "idle" =>
            /\ s \in DOMAIN loc'[i].prices
            /\ loc'[i].prices[s] = loc[i].prices[s]]_vars

\* two loaded alerts share a symbol; the first did not trigger at the price
\* resolved, and send_alert runs for the second with that price and change
C30_Witness ==
  \E i \in Invs :
    /\ pc[i] = "sending"
    /\ Len(loc[i].rows) = 2
    /\ loc[i].rows[1].symbol = loc[i].rows[2].symbol
    /\ loc[i].k = 2
    /\ loc[i].args.price = Some(1)
    /\ loc[i].args.change = Some(-1)

\* ------------------------------------------------------------------ C31
\* The /alert commands that write the store (tables alerts and settings),
\* with no pass of alert_checker in between.
NextOwner ==
  \/ SetupAlerts
  \/ Commands
  \/ \E u \in Users : Clear(u)
  \/ \E c \in Channels : SetChannelBegin(c)
  \/ SetChannelCommit

SpecOwner == Init /\ [][NextOwner]_vars

\* the rows of table alerts that user u does not own
NotOwnedBy(rows, u) == {r \in rows : r.user_id # u}

\* user u owns a row with this id
Owns(rows, u, id) == \E r \in rows : r.id = id /\ r.user_id = u

\* C31 as stated: /alert remove, pause, resume and clear issued by user u
\* leave every alert of every other user present and field-for-field
\* unchanged, and a remove, pause or resume naming an id that does not exist
\* or that another user owns changes nothing in the store.
C31_OwnerOnlyNothingElseChanges ==
  [][\A u \in Users, id \in AlertIds :
       /\ (Remove(u, id) \/ Pause(u, id) \/ Resume(u, id) \/ Clear(u)) =>
            NotOwnedBy(alerts', u) = NotOwnedBy(alerts, u)
       /\ ((Remove(u, id) \/ Pause(u, id) \/ Resume(u, id))
             /\ ~Owns(alerts, u, id)) =>
            /\ alerts' = alerts
            /\ nextId' = nextId
            /\ settings' = settings
            /\ pausedCol' = pausedCol]_vars

\* C31 amended: /alert remove, pause, resume and clear issued by user u leave
\* every alert of every other user present and field-for-field unchanged, and
\* a remove, pause or resume naming an id that does not exist or that another
\* user owns changes no alert row, no id sequence and no setting; the only
\* store change such a command can make is the schema creation of
\* _ensure_schema (the paused column) when the schema is incomplete.
C31_OwnerOnlyRows ==
  [][\A u \in Users, id \in AlertIds :
       /\ (Remove(u, id) \/ Pause(u, id) \/ Resume(u, id) \/ Clear(u)) =>
            NotOwnedBy(alerts', u) = NotOwnedBy(alerts, u)
       /\ ((Remove(u, id) \/ Pause(u, id) \/ Resume(u, id))
             /\ ~Owns(alerts, u, id)) =>
            /\ alerts' = alerts
            /\ nextId' = nextId
            /\ settings' = settings]_vars

\* three commands were handled: two users have added one alert each and
\* user 1 has paused alert 1; the alert of user 2 is as it was stored
C31_Witness ==
  /\ nTicks = 0
  /\ nCmds = 3
  /\ nextId = 3
  /\ \E r \in alerts : r.id = 1 /\ r.user_id = 1 /\ r.paused = 1
  /\ \E r \in alerts :
       r = NewRow(2, 2, "AAPL", 1, "below")

\* ------------------------------------------------------------------ C32
\* /alert pause and /alert resume between the passes of one caller, on the
\* store that two /alert add of an earlier run have left: two active alerts
\* of two users.  The clock is stopped, so the second pass is served from
\* the cache what the first pass has fetched.
InitPause ==
  /\ BOT_INSTANCE = TRUE
  /\ lock = 0
  /\ cache = <<>>
  /\ now = 0
  /\ alerts = SeqSet(RetryRows)
  /\ nextId = 3
  /\ pausedCol = TRUE
  /\ pc = [i \in Invs |-> "idle"]
  /\ loc = [i \in Invs |-> EmptyLoc]
  /\ hist = [i \in Invs |-> EmptyHist]
  /\ sendCount = [a \in AlertIds |-> 0]
  /\ nTicks = 0
  /\ foundFree = 0
  /\ passesStarted = 0
  /\ nCmds = 0
  /\ nextIteration = 0
  /\ adding = [h \in Handlers |-> IdleAdd]
  /\ ALERTS_CHANNEL_ID = None
  /\ ALERT_LOOP_STARTED = TRUE
  /\ settings = None
  /\ loopRunning = TRUE
  /\ ready = IdleReady
  /\ setting = IdleSetting
  /\ lookups = IdleLookups
  /\ WatchIdle

NextPause ==
  \/ \E u \in Users, id \in AlertIds : Pause(u, id)
  \/ \E u \in Users, id \in AlertIds : Resume(u, id)
  \/ Start(1)
  \/ Enter(1)
  \/ Load(1)
  \/ LoadEmpty(1)
  \/ \E n \in 1..MaxAlerts, r \in {Absent, GoodPrice} : FetchOne(1, n, r)
  \/ SendStart(1)
  \/ SendReturn(1, TRUE)
  \/ DeleteBatch(1)
  \/ Finish(1)

SpecPause == InitPause /\ [][NextPause]_vars

\* rows a and b are the same alert but for the paused flag
SameButPaused(a, b) ==
  /\ a.id = b.id
  /\ a.user_id = b.user_id
  /\ a.symbol = b.symbol
  /\ a.target = b.target
  /\ a.direction = b.direction

\* table `after` is table `before` with the flag of the alert that user u
\* addresses as id set to v, and nothing else changed
OnlyFlagSet(before, after, u, id, v) ==
  /\ Cardinality(after) = Cardinality(before)
  /\ \A r \in before :
       \E n \in after :
         /\ SameButPaused(r, n)
         /\ n.paused = IF r.id = id /\ r.user_id = u THEN v ELSE r.paused

\* what pause and resume do to the store, step by step
PauseResumeSteps ==
  \A u \in Users, id \in AlertIds :
    /\ Pause(u, id) =>
         /\ OnlyFlagSet(alerts, alerts', u, id, 1)
         /\ nextId' = nextId /\ settings' = settings
         /\ (\A r \in alerts : r.id = id => r.paused = 1) => alerts' = alerts
    /\ Resume(u, id) =>
         /\ OnlyFlagSet(alerts, alerts', u, id, 0)
         /\ nextId' = nextId /\ settings' = settings
         /\ (\A r \in alerts : r.id = id => r.paused = 0) => alerts' = alerts

\* the load read of a pass returns the alerts whose flag is 0, and only those
LoadsUnpaused ==
  \A i \in Invs :
    /\ (pc[i] = "load" /\ pc'[i] = "gather") =>
         {loc'[i].rows[k] : k \in 1..Len(loc'[i].rows)}
           = {r \in alerts : r.paused = 0}
    /\ (pc[i] = "load" /\ pc'[i] = "idle") =>
         {r \in alerts : r.paused = 0} = {}

\* pause and resume applied twice are pause and resume applied once
PauseResumeIdempotent ==
  \A u \in Users, id \in AlertIds, v \in {0, 1} :
    SetPaused(SetPaused(alerts, u, id, v), u, id, v) = SetPaused(alerts, u, id, v)

\* C32 as stated: pause and resume change only the paused flag of the
\* addressed alert and are idempotent; pause followed by resume restores the
\* alert to its original state with the same id; a pass loads an alert if and
\* only if its paused flag is 0 at the load read.
C32_PauseResumeRestores ==
  /\ [](PauseResumeIdempotent
        /\ \A u \in Users, id \in AlertIds :
             SetPaused(SetPaused(alerts, u, id, 1), u, id, 0) = alerts)
  /\ [][PauseResumeSteps /\ LoadsUnpaused]_vars

\* C32 amended: pause and resume change only the paused flag of the addressed
\* alert and are idempotent; pause followed by resume leaves the alert with
\* the same id and fields and the flag 0, which is its original state when
\* the alert was active before the pause (an alert that was already paused
\* ends active); a pass loads an alert if and only if its paused flag is 0 at
\* the load read.
C32_PauseResumeLeavesActive ==
  /\ [](PauseResumeIdempotent
        /\ \A u \in Users, id \in AlertIds :
             LET back == SetPaused(SetPaused(alerts, u, id, 1), u, id, 0)
             IN /\ OnlyFlagSet(alerts, back, u, id, 0)
                /\ (\A r \in alerts : r.id = id => r.paused = 0) => back = alerts)
  /\ [][PauseResumeSteps /\ LoadsUnpaused]_vars

\* user 1 has paused alert 1 and resumed it, and nothing else was asked: the
\* first pass has loaded alert 2 alone (its symbol is in the cache, the
\* symbol of alert 1 is not), the second pass has loaded both alerts, and
\* both are as they were stored
C32_Witness ==
  /\ nCmds = 2
  /\ nTicks = 2
  /\ alerts = SeqSet(RetryRows)
  /\ pc[1] = "eval"
  /\ hist[1].loaded = {1, 2}
  /\ hist[1].resolves["AAPL"] = 0
  /\ hist[1].resolves["bitcoin"] = 1

\* ------------------------------------------------------------------ C33
\* the gateway has reconnected with a new session: on_ready is dispatched
\* again to both handlers, in the same process
ReadyAgain ==
  /\ ready.bot = "done"
  /\ ready.alerts = "done"
  /\ ready.fires < MaxReady
  /\ ready' = [ready EXCEPT !.bot = "idle", !.alerts = "idle", !.fires = @ + 1]
  /\ UNCHANGED <<BOT_INSTANCE, lock, cache, now, alerts, nextId, pausedCol, pc,
                 loc, hist, sendCount, nTicks, foundFree, passesStarted, nCmds,
                 nextIteration, adding, ALERTS_CHANNEL_ID, ALERT_LOOP_STARTED,
                 settings, loopRunning, setting, lookups, watchVars>>

\* a call of alert_checker() made by the running loop runs _ensure_schema,
\* takes the lock, and its SELECT raises sqlite3.Error: the lock is released,
\* the exception leaves alert_checker and the task of tasks.loop is done
LoopRaise ==
  /\ loopRunning
  /\ BOT_INSTANCE
  /\ nTicks < MaxTicks
  /\ \A i \in Invs : pc[i] = "idle"
  /\ nTicks' = nTicks + 1
  /\ pausedCol' = TRUE
  /\ hist' = [hist EXCEPT ![1] = [EmptyHist EXCEPT !.outcome = "readfail",
                                                   !.schemaReads = 1]]
  /\ loopRunning' = FALSE
  /\ UNCHANGED <<BOT_INSTANCE, lock, cache, now, alerts, nextId, pc, loc,
                 sendCount, foundFree, passesStarted, nCmds, nextIteration,
                 adding, ALERTS_CHANNEL_ID, ALERT_LOOP_STARTED, settings,
                 ready, setting, lookups, watchVars>>

\* One process: the two on_ready handlers in any interleaving, on_ready
\* fired again, /alert setchannel, and the loop ended by a failing pass.
NextReady ==
  \/ SetupAlerts
  \/ BotRead
  \/ BotAssign
  \/ BotStart
  \/ AlertsRead
  \/ AlertsAssign
  \/ AlertsStart
  \/ ReadyAgain
  \/ LoopRaise
  \/ \E c \in Channels : SetChannelBegin(c)
  \/ SetChannelCommit

SpecReady == InitRestart /\ [][NextReady]_vars

\* C33: at most one alert_checker loop task is ever running; in whatever
\* order the two on_ready handlers run and however many times on_ready
\* fires, the loop is started once and no start attempt raises out of its
\* handler.
C33_LoopStartedOnce ==
  /\ [](ready.starts <= 1 /\ ~ready.raised)
  /\ [][ready'.starts > ready.starts => ~loopRunning]_vars

\* ------------------------------------------------------------------ C34
\* /alert test with a resolver that suspends: _get_price_cached serves a
\* live entry, or reads the time and awaits resolve_price
TestLookup(s) ==
  /\ BOT_INSTANCE
  /\ nCmds < MaxCmds
  /\ nCmds' = nCmds + 1
  /\ lookups' = IF CacheLive(cache, NormalizeSymbol(s), now)
                THEN lookups
                ELSE LookupOpen(lookups, 0, NormalizeSymbol(s), now)
  /\ UNCHANGED <<BOT_INSTANCE, lock, cache, now, alerts, nextId, pausedCol, pc,
                 loc, hist, sendCount, nTicks, foundFree, passesStarted,
                 nextIteration, adding, ALERTS_CHANNEL_ID, ALERT_LOOP_STARTED,
                 settings, loopRunning, ready, setting, watchVars>>

\* resolve_price returns r to a suspended /alert test: the entry is stored
TestReturn(call, r) ==
  /\ call \in lookups.open
  /\ call.by = 0
  /\ cache' = LookupStore(cache, call, r, now)
  /\ lookups' = LookupClose(lookups, call)
  /\ UNCHANGED <<BOT_INSTANCE, lock, now, alerts, nextId, pausedCol, pc, loc,
                 hist, sendCount, nTicks, foundFree, passesStarted, nCmds,
                 nextIteration, adding, ALERTS_CHANNEL_ID, ALERT_LOOP_STARTED,
                 settings, loopRunning, ready, setting, watchVars>>

\* a fetch_one task of the gather whose symbol has a live entry: the lookup
\* returns it without suspending
FetchServed(i, n) ==
  /\ pc[i] = "gather"
  /\ n \in 1..Len(loc[i].jobs)
  /\ loc[i].jobs[n] \notin loc[i].running
  /\ SemFree(loc[i].running)
  /\ CacheLive(cache, loc[i].jobs[n], now)
  /\ FetchOne(i, n, Absent)
  /\ UNCHANGED lookups

\* time passes while a resolver call is awaited
LookupClock(d) ==
  /\ lookups.open # {}
  /\ now + d <= MaxTime
  /\ now' = now + d
  /\ UNCHANGED <<BOT_INSTANCE, lock, cache, alerts, nextId, pausedCol, pc, loc,
                 hist, sendCount, nTicks, foundFree, passesStarted, nCmds,
                 nextIteration, adding, ALERTS_CHANNEL_ID, ALERT_LOOP_STARTED,
                 settings, loopRunning, ready, setting, lookups, watchVars>>

\* The passes of one caller and /alert test over two stored active alerts,
\* every lookup that misses the cache suspending in resolve_price.
NextLookup ==
  \/ Start(1)
  \/ Enter(1)
  \/ Load(1)
  \/ LoadEmpty(1)
  \/ FetchBegin(1)
  \/ \E sym \in Symbols, r \in {Absent, GoodPrice} : FetchEnd(1, sym, r)
  \/ \E n \in 1..MaxAlerts : FetchServed(1, n)
  \/ \E t \in TestInputs : TestLookup(t)
  \/ \E call \in lookups.open, r \in {Absent, GoodPrice} : TestReturn(call, r)
  \/ \E d \in ClockSteps : LookupClock(d)
  \/ SendStart(1)
  \/ SendReturn(1, TRUE)
  \/ DeleteBatch(1)
  \/ Finish(1)

SpecLookup == InitRetry /\ [][NextLookup]_vars

\* C34: the timestamp stored for a symbol in the price cache never
\* decreases, and the stored tuple is always the result of the most recently
\* started resolver call for that symbol, also when a lookup of a pass and a
\* lookup of /alert test miss the cache for the same symbol and resolve
\* concurrently.
C34_CacheEntryIsNewest ==
  [][/\ \A s \in DOMAIN cache :
          s \in DOMAIN cache' /\ cache'[s].ts >= cache[s].ts
     /\ \A call \in lookups.open \ lookups'.open :
          call.sym \in DOMAIN lookups.last =>
            call.seq > lookups.last[call.sym]]_vars

\* ============================================================ watchlist
\* the text channels the bot can see: get_channel returns None for any other
VisibleChannels == {101}

WatchSymbols == {"bitcoin"}

\* the id Discord gives to the n-th message the bot sends to the channel
MessageId(n) == 200 + n

\* str(WATCHLIST_MESSAGE_ID)
MsgToStr(m) ==
  IF m = None THEN "None"
  ELSE CASE m[1] = 201 -> "201" [] m[1] = 202 -> "202" [] m[1] = 203 -> "203"
         [] m[1] = 204 -> "204" [] m[1] = 205 -> "205" [] m[1] = 206 -> "206"

\* setup_watchlist(bot, guild_id): BOT_INSTANCE = bot
SetupWatchlist ==
  /\ ~wmod.BOT_INSTANCE
  /\ wmod' = [wmod EXCEPT !.BOT_INSTANCE = TRUE]
  /\ UNCHANGED <<botmod, wstore, chan, upserts, clearing, nUpserts>>
  /\ UNCHANGED alertVars

\* /watchlist setchannel: WATCHLIST_CHANNEL_ID = channel.id and the INSERT OR
\* REPLACE of settings key watchlist_channel
WSetChannel(c) ==
  /\ wmod.BOT_INSTANCE
  /\ wmod' = [wmod EXCEPT !.WATCHLIST_CHANNEL_ID = Some(c)]
  /\ wstore' = [wstore EXCEPT !.watchlist_channel = Some(IntToStr(c))]
  /\ UNCHANGED <<botmod, chan, upserts, clearing, nUpserts>>
  /\ UNCHANGED alertVars

\* /watchlist add: INSERT OR IGNORE INTO watchlist
WAdd(sym) ==
  /\ wmod.BOT_INSTANCE
  /\ sym \notin wstore.watchlist
  /\ wstore' = [wstore EXCEPT !.watchlist = @ \cup {sym}]
  /\ UNCHANGED <<wmod, botmod, chan, upserts, clearing, nUpserts>>
  /\ UNCHANGED alertVars

\* /watchlist remove: DELETE FROM watchlist WHERE symbol = ?
WRemove(sym) ==
  /\ wmod.BOT_INSTANCE
  /\ sym \in wstore.watchlist
  /\ wstore' = [wstore EXCEPT !.watchlist = @ \ {sym}]
  /\ UNCHANGED <<wmod, botmod, chan, upserts, clearing, nUpserts>>
  /\ UNCHANGED alertVars

\* somebody deletes a message of the bot in the channel
MessageDeleted(m) ==
  /\ m \in chan.msgs
  /\ chan' = [chan EXCEPT !.msgs = @ \ {m}]
  /\ UNCHANGED <<wmod, botmod, wstore, upserts, clearing, nUpserts>>
  /\ UNCHANGED alertVars

\* the first check reads the handle and the channel id as false
UpsertUnconfigured(bot, channel) == ~bot \/ channel = None

\* upsert_watchlist_message() is called: if not BOT_INSTANCE or not
\* WATCHLIST_CHANNEL_ID: return False; else it awaits the SELECT
UpsertStart(h) ==
  /\ upserts[h].pc = "idle"
  /\ nUpserts < MaxUpserts
  /\ nUpserts' = nUpserts + 1
  /\ upserts' =
       [upserts EXCEPT ![h] =
          [IdleUpsert EXCEPT
             !.bot = wmod.BOT_INSTANCE,
             !.channel = wmod.WATCHLIST_CHANNEL_ID,
             !.pc = IF UpsertUnconfigured(wmod.BOT_INSTANCE, wmod.WATCHLIST_CHANNEL_ID)
                    THEN "idle" ELSE "read",
             !.ret = IF UpsertUnconfigured(wmod.BOT_INSTANCE, wmod.WATCHLIST_CHANNEL_ID)
                     THEN "False" ELSE "none"]]
  /\ UNCHANGED <<wmod, botmod, wstore, chan, clearing>>
  /\ UNCHANGED alertVars

\* rows = await cur.fetchall(); if not rows: return False; else it awaits
\* build_watchlist_table(rows)
UpsertRead(h) ==
  /\ upserts[h].pc = "read"
  /\ upserts' =
       [upserts EXCEPT ![h].rows = wstore.watchlist,
                       ![h].pc = IF wstore.watchlist = {} THEN "idle" ELSE "table",
                       ![h].ret = IF wstore.watchlist = {} THEN "False" ELSE "none"]
  /\ UNCHANGED <<wmod, botmod, wstore, chan, clearing, nUpserts>>
  /\ UNCHANGED alertVars

\* channel = BOT_INSTANCE.get_channel(WATCHLIST_CHANNEL_ID)
GetChannel(c) == c # None /\ c[1] \in VisibleChannels

\* the table is built: channel = get_channel(...); if not channel: return
\* False; if WATCHLIST_MESSAGE_ID: it awaits fetch_message and edit; else it
\* awaits channel.send
UpsertTable(h) ==
  /\ upserts[h].pc = "table"
  /\ upserts' =
       [upserts EXCEPT
          ![h].found = GetChannel(wmod.WATCHLIST_CHANNEL_ID),
          ![h].known = wmod.WATCHLIST_MESSAGE_ID,
          ![h].mid = wmod.WATCHLIST_MESSAGE_ID,
          ![h].pc = IF ~GetChannel(wmod.WATCHLIST_CHANNEL_ID) THEN "idle"
                    ELSE IF wmod.WATCHLIST_MESSAGE_ID # None THEN "edit"
                    ELSE "send",
          ![h].ret = IF ~GetChannel(wmod.WATCHLIST_CHANNEL_ID) THEN "False"
                     ELSE "none"]
  /\ UNCHANGED <<wmod, botmod, wstore, chan, clearing, nUpserts>>
  /\ UNCHANGED alertVars

\* msg = await channel.fetch_message(id); await msg.edit(embed=embed); return
\* True -- or one of the two raises (the message is gone, or Discord fails):
\* WATCHLIST_MESSAGE_ID = None and the call goes on to channel.send
UpsertEdit(h, ok) ==
  /\ upserts[h].pc = "edit"
  /\ ok => upserts[h].mid[1] \in chan.msgs
  /\ IF ok
     THEN /\ chan' = [chan EXCEPT !.edits = @ + 1]
          /\ upserts' = [upserts EXCEPT ![h].pc = "idle", ![h].ret = "True",
                                        ![h].edited = @ + 1, ![h].editOk = TRUE]
          /\ wmod' = wmod
     ELSE /\ wmod' = [wmod EXCEPT !.WATCHLIST_MESSAGE_ID = None]
          /\ upserts' = [upserts EXCEPT ![h].pc = "send"]
          /\ chan' = chan
  /\ UNCHANGED <<botmod, wstore, clearing, nUpserts>>
  /\ UNCHANGED alertVars

\* msg = await channel.send(embed=embed); WATCHLIST_MESSAGE_ID = msg.id; then
\* the connection to the database is awaited -- or send raises, and the
\* exception leaves the call
UpsertSend(h, ok) ==
  /\ upserts[h].pc = "send"
  /\ IF ok
     THEN /\ chan' = [chan EXCEPT !.msgs = @ \cup {MessageId(chan.sends + 1)},
                                  !.sends = @ + 1]
          /\ wmod' = [wmod EXCEPT !.WATCHLIST_MESSAGE_ID = Some(MessageId(chan.sends + 1))]
          /\ upserts' = [upserts EXCEPT ![h].pc = "persist", ![h].sent = @ + 1,
                                        ![h].newId = Some(MessageId(chan.sends + 1))]
     ELSE /\ upserts' = [upserts EXCEPT ![h].pc = "idle", ![h].ret = "raised"]
          /\ UNCHANGED <<chan, wmod>>
  /\ UNCHANGED <<botmod, wstore, clearing, nUpserts>>
  /\ UNCHANGED alertVars

\* nothing is written
PersistNothing(cur, own, old) == old

\* the value of the INSERT OR REPLACE: str(WATCHLIST_MESSAGE_ID), the global
\* read when the statement is executed
PersistValue(cur, own, old) == Some(MsgToStr(cur))

\* INSERT OR REPLACE INTO settings ('watchlist_message', ...), commit, return
\* True
UpsertPersist(h) ==
  /\ upserts[h].pc = "persist"
  /\ wstore' = [wstore EXCEPT !.watchlist_message =
                  PersistValue(wmod.WATCHLIST_MESSAGE_ID, upserts[h].newId, @)]
  /\ upserts' = [upserts EXCEPT ![h].pc = "idle", ![h].ret = "True"]
  /\ UNCHANGED <<wmod, botmod, chan, clearing, nUpserts>>
  /\ UNCHANGED alertVars

\* One caller of upsert_watchlist_message and the /watchlist commands that
\* set up what it reads.
NextUpsert ==
  \/ SetupWatchlist
  \/ \E c \in Channels : WSetChannel(c)
  \/ \E sym \in WatchSymbols : WAdd(sym)
  \/ \E sym \in WatchSymbols : WRemove(sym)
  \/ \E m \in chan.msgs : MessageDeleted(m)
  \/ UpsertStart(1)
  \/ UpsertRead(1)
  \/ UpsertTable(1)
  \/ \E ok \in BOOLEAN : UpsertEdit(1, ok)
  \/ \E ok \in BOOLEAN : UpsertSend(1, ok)
  \/ UpsertPersist(1)

SpecUpsert == Init /\ [][NextUpsert]_vars

\* ------------------------------------------------------------------ C35
\* what a call of upsert_watchlist_message that has returned has done
UpsertContract(u) ==
  /\ u.ret = "False" =>
       /\ u.sent = 0 /\ u.edited = 0
       /\ ~u.bot \/ u.channel = None \/ u.rows = {} \/ ~u.found
  /\ u.ret \in {"True", "raised"} =>
       u.bot /\ u.channel # None /\ u.rows # {} /\ u.found
  /\ u.ret = "True" =>
       \/ u.known # None /\ u.editOk /\ u.edited = 1 /\ u.sent = 0
       \/ (u.known = None \/ ~u.editOk) /\ u.edited = 0 /\ u.sent = 1
            /\ u.newId # None
  /\ (u.known # None /\ u.editOk) => u.ret = "True"

\* C35: upsert_watchlist_message sends and edits nothing and returns False
\* when the bot handle or the channel is not configured, when the watchlist
\* is empty or when the channel is not found; otherwise it edits the existing
\* message when a message id is known and the edit succeeds, and else sends
\* one new message, sets WATCHLIST_MESSAGE_ID to its id, stores that id under
\* the settings key watchlist_message and returns True.
C35_UpsertContract ==
  /\ [](\A h \in WHandlers : UpsertContract(upserts[h]))
  /\ [][\A h \in WHandlers :
          /\ (upserts[h].ret = "none" /\ upserts'[h].ret = "False") =>
               chan' = chan /\ wmod' = wmod /\ wstore' = wstore
          /\ (upserts[h].ret = "none" /\ upserts'[h].ret = "True"
                /\ upserts'[h].sent = 1) =>
               /\ upserts'[h].newId[1] = MessageId(chan.sends)
               /\ wmod'.WATCHLIST_MESSAGE_ID = upserts'[h].newId
               /\ wstore'.watchlist_message = Some(MsgToStr(upserts'[h].newId))]_vars

\* a first call has sent message 201 and stored its id, and the second call
\* has edited that message and returned True
C35_Witness ==
  /\ nUpserts = 2
  /\ upserts[1].ret = "True"
  /\ upserts[1].edited = 1
  /\ upserts[1].known = Some(201)
  /\ chan.sends = 1
  /\ chan.edits = 1
  /\ wmod.WATCHLIST_MESSAGE_ID = Some(201)
  /\ wstore.watchlist_message = Some("201")

\* ------------------------------------------------------------------ C36
\* updater(): one tick of the one-minute loop; it returns at once when the
\* channel or the bot handle is not set, and else calls
\* upsert_watchlist_message
UpdaterTick ==
  /\ wmod.WATCHLIST_CHANNEL_ID # None
  /\ wmod.BOT_INSTANCE
  /\ UpsertStart(1)

\* /watchlist clear: DELETE FROM watchlist, commit
ClearBegin ==
  /\ wmod.BOT_INSTANCE
  /\ clearing.pc = "idle"
  /\ wstore' = [wstore EXCEPT !.watchlist = {}]
  /\ clearing' = [clearing EXCEPT !.pc = "check"]
  /\ UNCHANGED <<wmod, botmod, chan, upserts, nUpserts>>
  /\ UNCHANGED alertVars

\* if WATCHLIST_CHANNEL_ID and WATCHLIST_MESSAGE_ID and BOT_INSTANCE and the
\* channel is found: it awaits fetch_message; else WATCHLIST_MESSAGE_ID = None
\* and it awaits the connection to the database
ClearCheck ==
  /\ clearing.pc = "check"
  /\ IF /\ wmod.WATCHLIST_CHANNEL_ID # None
        /\ wmod.WATCHLIST_MESSAGE_ID # None
        /\ wmod.BOT_INSTANCE
        /\ GetChannel(wmod.WATCHLIST_CHANNEL_ID)
     THEN /\ clearing' = [pc |-> "fetch", mid |-> wmod.WATCHLIST_MESSAGE_ID]
          /\ wmod' = wmod
     ELSE /\ clearing' = [pc |-> "forget", mid |-> None]
          /\ wmod' = [wmod EXCEPT !.WATCHLIST_MESSAGE_ID = None]
  /\ UNCHANGED <<botmod, wstore, chan, upserts, nUpserts>>
  /\ UNCHANGED alertVars

\* msg = await channel.fetch_message(id); await msg.delete() -- or one of the
\* two raises, which is passed over; then WATCHLIST_MESSAGE_ID = None
ClearFetch(ok) ==
  /\ clearing.pc = "fetch"
  /\ ok => clearing.mid[1] \in chan.msgs
  /\ chan' = IF ok THEN [chan EXCEPT !.msgs = @ \ {clearing.mid[1]}] ELSE chan
  /\ wmod' = [wmod EXCEPT !.WATCHLIST_MESSAGE_ID = None]
  /\ clearing' = [pc |-> "forget", mid |-> None]
  /\ UNCHANGED <<botmod, wstore, upserts, nUpserts>>
  /\ UNCHANGED alertVars

\* DELETE FROM settings WHERE key='watchlist_message', commit
ClearForget ==
  /\ clearing.pc = "forget"
  /\ wstore' = [wstore EXCEPT !.watchlist_message = None]
  /\ clearing' = IdleClear
  /\ UNCHANGED <<wmod, botmod, chan, upserts, nUpserts>>
  /\ UNCHANGED alertVars

\* The updater (caller 1) and the /watchlist commands (caller 2) on one event
\* loop: every await of upsert_watchlist_message and of /watchlist clear is a
\* point where the other may run.
NextWatch ==
  \/ SetupWatchlist
  \/ \E c \in Channels : WSetChannel(c)
  \/ \E sym \in WatchSymbols : WAdd(sym)
  \/ \E sym \in WatchSymbols : WRemove(sym)
  \/ UpdaterTick
  \/ UpsertStart(2)
  \/ \E h \in WHandlers :
       \/ UpsertRead(h)
       \/ UpsertTable(h)
       \/ \E ok \in BOOLEAN : UpsertEdit(h, ok)
       \/ \E ok \in BOOLEAN : UpsertSend(h, ok)
       \/ UpsertPersist(h)
  \/ ClearBegin
  \/ ClearCheck
  \/ \E ok \in BOOLEAN : ClearFetch(ok)
  \/ ClearForget

SpecWatch == Init /\ [][NextWatch]_vars

\* no call of upsert_watchlist_message and no /watchlist clear is in progress
WatchQuiet ==
  /\ \A h \in WHandlers : upserts[h].pc = "idle"
  /\ clearing.pc = "idle"

\* the message id in memory is the one stored under watchlist_message
IdsAgree ==
  IF wmod.WATCHLIST_MESSAGE_ID = None
  THEN wstore.watchlist_message = None
  ELSE wstore.watchlist_message = Some(MsgToStr(wmod.WATCHLIST_MESSAGE_ID))

\* C36: calls of upsert_watchlist_message that overlap (an updater tick and
\* a command) never post more than one new watchlist message -- a call never
\* sends a message while another call that is still in progress has sent
\* one -- and once all of them have returned, WATCHLIST_MESSAGE_ID in memory
\* equals the value stored under the settings key watchlist_message.
C36_OneMessageAndIdsAgree ==
  /\ [][\A h \in WHandlers :
          (upserts'[h].sent = 1 /\ upserts[h].sent = 0) =>
            \A g \in WHandlers \ {h} :
              ~(upserts[g].pc # "idle" /\ upserts[g].sent = 1)]_vars
  /\ [](WatchQuiet => IdsAgree)

\* ------------------------------------------------------------------ C37
\* int(row[0]) of a stored message id
StrToMsg(t) ==
  CASE t = "201" -> 201 [] t = "202" -> 202 [] t = "203" -> 203
    [] t = "204" -> 204 [] t = "205" -> 205 [] t = "206" -> 206

\* on_ready of the top-level bot, up to the sync of the commands: it reads
\* the settings keys watchlist_channel and watchlist_message and assigns
\* globals()["WATCHLIST_CHANNEL_ID"] and globals()["WATCHLIST_MESSAGE_ID"],
\* the names that module bot imported from module watchlist; int("None")
\* raises and ends on_ready
TopRestore ==
  /\ wmod.BOT_INSTANCE
  /\ botmod.pc = "idle"
  /\ botmod' =
       [botmod EXCEPT
          !.WATCHLIST_CHANNEL_ID =
             IF wstore.watchlist_channel # None
             THEN Some(StrToInt(wstore.watchlist_channel[1])) ELSE @,
          !.WATCHLIST_MESSAGE_ID =
             IF wstore.watchlist_message \notin {None, Some("None")}
             THEN Some(StrToMsg(wstore.watchlist_message[1])) ELSE @,
          !.pc = IF wstore.watchlist_message = Some("None") THEN "failed"
                 ELSE "restored"]
  /\ UNCHANGED <<wmod, wstore, chan, upserts, clearing, nUpserts>>
  /\ UNCHANGED alertVars

\* if not updater.is_running(): updater.start()
TopStartUpdater ==
  /\ botmod.pc = "restored"
  /\ botmod' = [botmod EXCEPT !.pc = "running"]
  /\ UNCHANGED <<wmod, wstore, chan, upserts, clearing, nUpserts>>
  /\ UNCHANGED alertVars

\* the process of the top-level bot ends and starts again: both modules are
\* imported anew (the names are None again), a call in progress is gone, the
\* database and the channel keep what they hold
TopRestart ==
  /\ botmod.boots < MaxRestarts
  /\ botmod.pc = "running"
  /\ wmod' = [WATCHLIST_CHANNEL_ID |-> None, WATCHLIST_MESSAGE_ID |-> None,
              BOT_INSTANCE |-> FALSE]
  /\ botmod' = [WATCHLIST_CHANNEL_ID |-> None, WATCHLIST_MESSAGE_ID |-> None,
                pc |-> "idle", boots |-> botmod.boots + 1]
  /\ upserts' = [h \in WHandlers |-> IdleUpsert]
  /\ UNCHANGED <<wstore, chan, clearing, nUpserts>>
  /\ UNCHANGED alertVars

\* /watchlist setchannel of the top-level module: WATCHLIST_CHANNEL_ID =
\* channel.id and the INSERT OR REPLACE of settings key watchlist_channel
TopSetChannel(c) ==
  /\ botmod.pc = "running"
  /\ WSetChannel(c)

\* /watchlist add of the top-level module
TopAdd(sym) ==
  /\ botmod.pc = "running"
  /\ WAdd(sym)

\* one tick of the top-level updater: if not WATCHLIST_CHANNEL_ID or not
\* BOT_INSTANCE: return; else it awaits the SELECT
TopUpdaterTick ==
  /\ botmod.pc = "running"
  /\ UpsertStart(1)

\* rows = await cur.fetchall(); if not rows: return
TopUpdaterRead == UpsertRead(1)

\* channel = BOT_INSTANCE.get_channel(WATCHLIST_CHANNEL_ID); if not channel:
\* return; if WATCHLIST_MESSAGE_ID: fetch and edit; else send
TopUpdaterTable == UpsertTable(1)

TopUpdaterEdit(ok) == UpsertEdit(1, ok)

TopUpdaterSend(ok) == UpsertSend(1, ok)

TopUpdaterPersist == UpsertPersist(1)

\* The top-level bot (src/bot.py with src/watchlist.py): set-up, on_ready,
\* the updater, the commands that configure it, and a restart.
NextTop ==
  \/ SetupWatchlist
  \/ TopRestore
  \/ TopStartUpdater
  \/ TopRestart
  \/ \E c \in Channels : TopSetChannel(c)
  \/ \E sym \in WatchSymbols : TopAdd(sym)
  \/ TopUpdaterTick
  \/ TopUpdaterRead
  \/ TopUpdaterTable
  \/ \E ok \in BOOLEAN : TopUpdaterEdit(ok)
  \/ \E ok \in BOOLEAN : TopUpdaterSend(ok)
  \/ TopUpdaterPersist

SpecTop == Init /\ [][NextTop]_vars

\* C37: in the top-level bot, when on_ready has read the settings and is
\* about to start the updater, the watchlist channel id and message id that
\* the updater reads are the stored ones, and a tick of the updater started
\* by on_ready with a channel stored does not return at its first check:
\* after a restart the updater posts to the channel set before with
\* /watchlist setchannel.
C37_ReadyRestoresWatchlist ==
  /\ [](botmod.pc = "restored" =>
          /\ wstore.watchlist_channel # None =>
               wmod.WATCHLIST_CHANNEL_ID =
                 Some(StrToInt(wstore.watchlist_channel[1]))
          /\ wstore.watchlist_message # None =>
               wmod.WATCHLIST_MESSAGE_ID =
                 Some(StrToMsg(wstore.watchlist_message[1])))
  /\ [][(TopUpdaterTick /\ wstore.watchlist_channel # None) =>
          upserts'[1].ret # "False"]_vars
====
